---- MODULE Spec2Model ----
(***************************************************************************)
(* The lecture evaluation pipeline of VirtuLearn (src/model): the three    *)
(* evaluators (content correctness, engagement, topic coverage), the       *)
(* orchestrator that rescales and sums them, and the synchronous wrapper   *)
(* that runs the orchestrator on a worker thread with a timeout.           *)
(*                                                                         *)
(* Text is modelled character by character: a Python str is a sequence of  *)
(* one-character strings, and the str methods the code uses (lower, split, *)
(* strip, count, find, in) are operators over such sequences.  Python      *)
(* floats are modelled as exact rationals <<numerator, denominator>>.      *)
(***************************************************************************)
EXTENDS Integers, Sequences, FiniteSets, TLC

-----------------------------------------------------------------------------
(* Bounds of the model.                                                    *)

\* longest list of claims an LLM response carries
MaxClaims == 1

\* longest list of digressions an LLM response carries
MaxDigressions == 1

\* most repetitions of a phrase in a transcript
MaxRepeat == 1

-----------------------------------------------------------------------------
(* Exact rational arithmetic standing for Python float arithmetic.         *)

Abs(x) == IF x < 0 THEN -x ELSE x

RECURSIVE GCD(_, _)
GCD(a, b) == IF b = 0 THEN a ELSE GCD(b, a % b)

LCM(a, b) == (a * b) \div GCD(a, b)

\* the rational n/d (d > 0) in lowest terms
Rat(n, d) == <<n \div GCD(Abs(n), d), d \div GCD(Abs(n), d)>>

R(n) == <<n, 1>>

\* the floats that are no number: float('nan'), float('inf'), float('-inf').
\* A finite float has a denominator above 0.
NaN == <<0, 0>>

PosInf == <<1, 0>>

NegInf == <<-1, 0>>

IsFinite(x) == x[2] # 0

\* x + y: nan when either is nan or the two are opposite infinities
RAdd(x, y) ==
    IF IsFinite(x) /\ IsFinite(y)
    THEN Rat(x[1] * (LCM(x[2], y[2]) \div x[2]) + y[1] * (LCM(x[2], y[2]) \div y[2]),
             LCM(x[2], y[2]))
    ELSE IF x = NaN \/ y = NaN THEN NaN
    ELSE IF IsFinite(x) THEN y
    ELSE IF IsFinite(y) \/ x = y THEN x
    ELSE NaN

RNeg(x) == <<-x[1], x[2]>>

RSub(x, y) == RAdd(x, RNeg(y))

\* the sign of a float that is not nan: -1, 0 or 1
sign(x) == IF x[1] < 0 THEN -1 ELSE IF x[1] > 0 THEN 1 ELSE 0

\* x * y: nan when either is nan or an infinity meets 0
RMul(x, y) ==
    IF IsFinite(x) /\ IsFinite(y)
    THEN Rat((x[1] \div GCD(Abs(x[1]), y[2])) * (y[1] \div GCD(Abs(y[1]), x[2])),
             (x[2] \div GCD(Abs(y[1]), x[2])) * (y[2] \div GCD(Abs(x[1]), y[2])))
    ELSE IF x = NaN \/ y = NaN \/ sign(x) * sign(y) = 0 THEN NaN
    ELSE <<sign(x) * sign(y), 0>>

\* x / n for an integer n > 0
RDivInt(x, n) == RMul(x, <<1, n>>)

\* x <= y and x < y: False when either is nan
RLeq(x, y) ==
    IF IsFinite(x) \/ IsFinite(y)
    THEN x # NaN /\ y # NaN /\ x[1] * y[2] <= y[1] * x[2]
    ELSE x # NaN /\ y # NaN /\ x[1] <= y[1]

RLt(x, y) ==
    IF IsFinite(x) \/ IsFinite(y)
    THEN x # NaN /\ y # NaN /\ x[1] * y[2] < y[1] * x[2]
    ELSE x # NaN /\ y # NaN /\ x[1] < y[1]

\* Python min(x, y) and max(x, y): the first argument unless the second is
\* below (above) it, so that min(nan, y) is nan and min(x, nan) is x
RMin(x, y) == IF RLt(y, x) THEN y ELSE x

RMax(x, y) == IF RLt(x, y) THEN y ELSE x

RECURSIVE RSum(_)
RSum(seq) == IF seq = <<>> THEN R(0) ELSE RAdd(Head(seq), RSum(Tail(seq)))

\* x is a float: a finite one or one of nan, inf, -inf
IsRat(x) == /\ DOMAIN x = 1..2
            /\ x[1] \in Int
            /\ x[2] \in Nat
            /\ x[2] = 0 => x[1] \in {-1, 0, 1}

-----------------------------------------------------------------------------
(* Python str methods over sequences of characters.                        *)

\* the characters of str.isspace() among the code points up to U+00FF, the
\* alphabet of the model: space, \n, \t, \r, \f, then U+000B, U+001C to
\* U+001F, U+0085 and U+00A0 written as themselves
Whitespace == {" ", "\n", "\t", "\r", "\f", "", "", "", "", "", "", " "}

\* the cased pairs of str.lower() among the code points up to U+00FF: the 26
\* ASCII capitals and the 30 capitals U+00C0 to U+00DE (U+00D7, the
\* multiplication sign, is not a letter)
UpperCase == <<"A", "B", "C", "D", "E", "F", "G", "H", "I", "J", "K", "L",
    "M", "N", "O", "P", "Q", "R", "S", "T", "U", "V", "W", "X", "Y", "Z",
    "À", "Á", "Â", "Ã", "Ä", "Å", "Æ", "Ç", "È", "É", "Ê", "Ë", "Ì", "Í",
    "Î", "Ï", "Ð", "Ñ", "Ò", "Ó", "Ô", "Õ", "Ö", "Ø", "Ù", "Ú", "Û", "Ü",
    "Ý", "Þ">>

LowerCase == <<"a", "b", "c", "d", "e", "f", "g", "h", "i", "j", "k", "l",
    "m", "n", "o", "p", "q", "r", "s", "t", "u", "v", "w", "x", "y", "z",
    "à", "á", "â", "ã", "ä", "å", "æ", "ç", "è", "é", "ê", "ë", "ì", "í",
    "î", "ï", "ð", "ñ", "ò", "ó", "ô", "õ", "ö", "ø", "ù", "ú", "û", "ü",
    "ý", "þ">>

lower_char(c) ==
    IF \E i \in DOMAIN UpperCase : UpperCase[i] = c
    THEN LowerCase[CHOOSE i \in DOMAIN UpperCase : UpperCase[i] = c]
    ELSE c

\* str.lower(); SubSeq turns the function into the sequence it describes
lower(s) == SubSeq([i \in 1..Len(s) |-> lower_char(s[i])], 1, Len(s))

\* whether sub occurs in s at index i (1-based)
starts_at(s, sub, i) ==
    /\ i + Len(sub) - 1 <= Len(s)
    /\ \A k \in 1..Len(sub) : s[i + k - 1] = sub[k]

\* the least element of a set of integers, 0 for the empty set
least(S) == IF S = {} THEN 0 ELSE CHOOSE i \in S : \A j \in S : i <= j

\* the greatest element of a non-empty set of integers
greatest(S) == CHOOSE i \in S : \A j \in S : i >= j

\* str.find(sub, start) with 1-based indices; 0 when there is no occurrence
find(s, sub, start) ==
    least({i \in start..(Len(s) - Len(sub) + 1) : starts_at(s, sub, i)})

\* str.count(sub) for a non-empty sub: non-overlapping occurrences, scanning
\* left to right; count_after counts on from the occurrence found at pos
RECURSIVE count_from(_, _, _)
RECURSIVE count_after(_, _, _)
count_after(s, sub, pos) ==
    IF pos = 0 THEN 0 ELSE 1 + count_from(s, sub, pos + Len(sub))

count_from(s, sub, i) == count_after(s, sub, find(s, sub, i))

count(s, sub) == count_from(s, sub, 1)

\* sub in s
contains(s, sub) == \E i \in 1..(Len(s) - Len(sub) + 1) : starts_at(s, sub, i)

\* the indices at which a word of s starts
word_starts(s) ==
    {i \in 1..Len(s) : s[i] \notin Whitespace /\ (i = 1 \/ s[i - 1] \in Whitespace)}

\* the index at which the word starting at i ends
word_end(s, i) == least({j \in i..Len(s) : j = Len(s) \/ s[j + 1] \in Whitespace})

\* the k-th element of a set of integers in increasing order
nth_least(S, k) == CHOOSE i \in S : Cardinality({j \in S : j < i}) = k - 1

\* the words of s that start at the indices starts, in order
words_at(s, starts) ==
    SubSeq([k \in 1..Cardinality(starts) |->
               SubSeq(s, nth_least(starts, k), word_end(s, nth_least(starts, k)))],
           1, Cardinality(starts))

\* str.split(): split on runs of whitespace, no empty words
split(s) == words_at(s, word_starts(s))

\* str.split(sep) for a one-character separator: empty fields are kept
RECURSIVE split_sep(_, _, _, _)
split_sep(s, sep, i, cur) ==
    IF i > Len(s) THEN <<cur>>
    ELSE IF s[i] = sep THEN <<cur>> \o split_sep(s, sep, i + 1, <<>>)
    ELSE split_sep(s, sep, i + 1, Append(cur, s[i]))

\* s between the first and the last of the indices keep
between(s, keep) == IF keep = {} THEN <<>> ELSE SubSeq(s, least(keep), greatest(keep))

\* str.strip()
strip(s) == between(s, {i \in 1..Len(s) : s[i] \notin Whitespace})

\* the set of the entries of a sequence
Range(seq) == {seq[i] : i \in 1..Len(seq)}

\* set(s.split())
word_set(s) == Range(split(s))

\* sum(text.count(k) for k in keywords)
RECURSIVE count_all(_, _)
count_all(text, keywords) ==
    IF keywords = <<>> THEN 0
    ELSE count(text, Head(keywords)) + count_all(text, Tail(keywords))

\* s repeated n times
RECURSIVE repeat(_, _)
repeat(s, n) == IF n = 0 THEN <<>> ELSE s \o repeat(s, n - 1)

\* the first n entries of a list: seq[:n]
take(seq, n) == SubSeq(seq, 1, IF Len(seq) < n THEN Len(seq) ELSE n)

-----------------------------------------------------------------------------
(* Keyword lists and separators of the program.                            *)

\* question cues
question_keywords ==
    << <<"q", "u", "e", "s", "t", "i", "o", "n">>,
       <<"a", "s", "k">>,
       <<"t", "h", "i", "n", "k">>,
       <<"d", "i", "s", "c", "u", "s", "s">>,
       <<"w", "h", "a", "t", " ", "d", "o", " ", "y", "o", "u">>,
       <<"a", "n", "y", "o", "n", "e">>,
       <<"r", "a", "i", "s", "e", " ", "y", "o", "u", "r", " ", "h", "a", "n", "d">> >>

\* engagement cues
engagement_keywords ==
    << <<"p", "a", "r", "t", "i", "c", "i", "p", "a", "t", "e">>,
       <<"s", "h", "a", "r", "e">>,
       <<"o", "p", "i", "n", "i", "o", "n">>,
       <<"t", "h", "o", "u", "g", "h", "t", "s">>,
       <<"e", "x", "p", "e", "r", "i", "e", "n", "c", "e">>,
       <<"e", "x", "a", "m", "p", "l", "e">> >>

\* pause indicators (heuristic fallback only)
pause_indicators ==
    << <<"p", "a", "u", "s", "e">>,
       <<"w", "a", "i", "t">>,
       <<"t", "h", "i", "n", "k", " ", "a", "b", "o", "u", "t">>,
       <<"t", "a", "k", "e", " ", "a", " ", "m", "o", "m", "e", "n", "t">> >>

\* interactive slide formats scanned by calculate_engagement_score
interactive_keywords ==
    << <<"e", "x", "e", "r", "c", "i", "s", "e">>,
       <<"a", "c", "t", "i", "v", "i", "t", "y">>,
       <<"g", "r", "o", "u", "p", " ", "w", "o", "r", "k">>,
       <<"d", "i", "s", "c", "u", "s", "s", "i", "o", "n">>,
       <<"p", "o", "l", "l">>,
       <<"q", "u", "i", "z">> >>

\* interactive slide formats scanned by calculate_engagement_score_fallback
interactive_keywords_fallback ==
    << <<"e", "x", "e", "r", "c", "i", "s", "e">>,
       <<"a", "c", "t", "i", "v", "i", "t", "y">>,
       <<"g", "r", "o", "u", "p", " ", "w", "o", "r", "k">>,
       <<"d", "i", "s", "c", "u", "s", "s", "i", "o", "n">>,
       <<"p", "o", "l", "l">>,
       <<"q", "u", "i", "z">>,
       <<"b", "r", "e", "a", "k", "o", "u", "t">> >>

\* separator before the source materials in the combined content
SOURCE_HEADER ==
    <<"\n", "\n", "-", "-", "-", " ", "S", "O", "U", "R", "C", "E", " ", "M", "A", "T", "E", "R", "I", "A", "L", "S", " ", "-", "-", "-", "\n">>

\* separator before the slides in the combined content
SLIDES_HEADER ==
    <<"\n", "\n", "-", "-", "-", " ", "S", "L", "I", "D", "E", "S", " ", "C", "O", "N", "T", "E", "N", "T", " ", "-", "-", "-", "\n">>

\* separator used by run_fallback_evaluation
PARAGRAPH ==
    <<"\n", "\n">>

\* the literal question mark
QUESTION_MARK == <<"?">>

\* the topic separator
COMMA == <<",">>

-----------------------------------------------------------------------------
(* The inputs the model draws from.                                        *)

\* a phrase dense in question cues: 2 cue words and 10 question marks
PhraseQuestions ==
    <<"a", "s", "k", " ", "a", "n", "y", "o", "n", "e", "?", "?", "?", "?", "?", "?", "?", "?", "?", "?", " ">>

\* a phrase with a pause indicator, an engagement cue and a content word
PhraseContent ==
    <<"W", "a", "i", "t", " ", "s", "h", "a", "r", "e", " ", "D", "N", "A", " ">>

\* reference material of two words
SourceText ==
    <<"d", "n", "a", " ", "c", "e", "l", "l">>

\* whitespace-only reference material
SourceBlank ==
    <<" ">>

\* slides naming three interactive formats
SlidesText ==
    <<"p", "o", "l", "l", " ", "q", "u", "i", "z", " ", "e", "x", "e", "r", "c", "i", "s", "e">>

\* one topic
TopicsOne ==
    <<"D", "N", "A">>

\* two topics, the first of two words
TopicsTwo ==
    <<"c", "e", "l", "l", " ", "b", "i", "o", "l", "o", "g", "y", ",", " ", "r", "n", "a">>

\* a topics string of whitespace only
TopicsBlank ==
    <<" ">>

\* a topics string of a comma and whitespace only
TopicsCommas ==
    <<",", " ">>

Phrases == {PhraseQuestions, PhraseContent}

Transcripts == {<<>>} \cup {repeat(p, n) : p \in Phrases, n \in 1..MaxRepeat}

TopicStrings == {<<>>, TopicsBlank, TopicsCommas, TopicsOne, TopicsTwo}

SourceStrings == {<<>>, SourceBlank, SourceText}

SlidesStrings == {<<>>, SlidesText}

\* <<>> for None, <<n>> for n minutes
Durations == {<<>>, <<1>>}

\* The text scans below are the same for every state that shares the inputs,
\* so their values over the inputs above are held in tables.  A table is
\* written [k \in S |-> f(k)] @@ <<>>, which equals [k \in S |-> f(k)], and
\* Memo(table, key, computed) equals computed whenever table[key] does.
Memo(table, key, computed) == IF key \in DOMAIN table THEN table[key] ELSE computed

-----------------------------------------------------------------------------
(* Engagement evaluator (src/model/engagement_evaluator.py).               *)

(* Engagement details are [exc, score, method, base_score, slides_bonus].    *)

\* the final score and the details, from the base score and the slides bonus
engagement_record(base_score, slides_bonus, method) ==
    [exc |-> FALSE,
     score |-> RMin(RAdd(base_score, slides_bonus), R(35)),
     method |-> method,
     base_score |-> base_score,
     slides_bonus |-> slides_bonus]

\* calculate_engagement_score: the heuristic the orchestrator awaits.  The
\* reconstruction step returns the transcript unchanged and nothing in the
\* body can throw, so its except branch is never taken.
calculate_engagement_score(transcript_text, slides_content) ==
    engagement_record(
        RMin(RAdd(R(count_all(lower(transcript_text), question_keywords) * 2
                    + count(transcript_text, QUESTION_MARK) * 3),
                  Rat(count_all(lower(transcript_text), engagement_keywords) * 3, 2)),
             R(30)),
        IF slides_content # <<>>
        THEN RMin(Rat(count_all(lower(slides_content), interactive_keywords), 2), R(3))
        ELSE R(0),
        "realistic_dummy_metrics")

\* the details when the final score is the plain sum
engagement_record_uncapped(base_score, slides_bonus, method) ==
    [exc |-> FALSE,
     score |-> RAdd(base_score, slides_bonus),
     method |-> method,
     base_score |-> base_score,
     slides_bonus |-> slides_bonus]

\* calculate_engagement_score_fallback with every min() dropped
calculate_engagement_score_fallback_uncapped(transcript_text, slides_content) ==
    engagement_record_uncapped(
        RAdd(R(count_all(lower(transcript_text), question_keywords) * 2
               + count(transcript_text, QUESTION_MARK) * 3
               + count_all(lower(transcript_text), pause_indicators) * 2),
             Rat(count_all(lower(transcript_text), engagement_keywords) * 3, 2)),
        IF slides_content # <<>>
        THEN R(count_all(lower(slides_content), interactive_keywords_fallback) * 2)
        ELSE R(0),
        "fallback_with_realistic_metrics")

\* calculate_engagement_score_fallback with the question cues taken off the
\* base score instead of added to it
calculate_engagement_score_fallback_subtracting(transcript_text, slides_content) ==
    engagement_record(
        RMin(RAdd(R(count(transcript_text, QUESTION_MARK) * 3
                    + count_all(lower(transcript_text), pause_indicators) * 2
                    - count_all(lower(transcript_text), question_keywords) * 2),
                  Rat(count_all(lower(transcript_text), engagement_keywords) * 3, 2)),
             R(30)),
        IF slides_content # <<>>
        THEN RMin(R(count_all(lower(slides_content), interactive_keywords_fallback) * 2),
                  R(5))
        ELSE R(0),
        "fallback_with_realistic_metrics")

\* calculate_engagement_score_fallback: the heuristic with pause indicators
\* and the larger slides bonus
calculate_engagement_score_fallback(transcript_text, slides_content) ==
    engagement_record(
        RMin(RAdd(R(count_all(lower(transcript_text), question_keywords) * 2
                    + count(transcript_text, QUESTION_MARK) * 3
                    + count_all(lower(transcript_text), pause_indicators) * 2),
                  Rat(count_all(lower(transcript_text), engagement_keywords) * 3, 2)),
             R(30)),
        IF slides_content # <<>>
        THEN RMin(R(count_all(lower(slides_content), interactive_keywords_fallback) * 2),
                  R(5))
        ELSE R(0),
        "fallback_with_realistic_metrics")

\* calculate_engagement_score_sync
calculate_engagement_score_sync(transcript_text, slides_content) ==
    calculate_engagement_score_fallback(transcript_text, slides_content)

(* IEEE 754 doubles.  A double that is not negative is <<m, e>> for the    *)
(* value m * 2^e, where m is a natural number of at most 53 bits, kept as  *)
(* the list of its digits in base 2^15, lowest first, without a zero at    *)
(* the top (<<>> is 0): a product of two mantissas has 106 bits.  Every     *)
(* operation computes the exact result and rounds it to the nearest        *)
(* double, ties to even, as the hardware does.                             *)

\* the base of a digit of a big number
LimbBase == 2 ^ 15

\* the bits of the mantissa of a Python float (sys.float_info.mant_dig)
MantissaBits == 53

RECURSIVE big_trim(_)
big_trim(a) ==
    IF a = <<>> THEN <<>>
    ELSE IF a[Len(a)] = 0 THEN big_trim(SubSeq(a, 1, Len(a) - 1))
    ELSE a

\* the digits of a natural number
RECURSIVE big_of(_)
big_of(n) == IF n = 0 THEN <<>> ELSE <<n % LimbBase>> \o big_of(n \div LimbBase)

\* the natural number of the digits, which has to be small
RECURSIVE big_int(_)
big_int(a) == IF a = <<>> THEN 0 ELSE a[1] + LimbBase * big_int(Tail(a))

low_limb(a) == IF a = <<>> THEN 0 ELSE a[1]

high_limbs(a) == IF a = <<>> THEN <<>> ELSE Tail(a)

\* a + b + carry
RECURSIVE big_add_carry(_, _, _)
big_add_carry(a, b, carry) ==
    IF a = <<>> /\ b = <<>> THEN big_of(carry)
    ELSE <<(low_limb(a) + low_limb(b) + carry) % LimbBase>>
         \o big_add_carry(high_limbs(a), high_limbs(b),
                          (low_limb(a) + low_limb(b) + carry) \div LimbBase)

big_add(a, b) == big_add_carry(a, b, 0)

\* a - b - borrow, a >= b + borrow
RECURSIVE big_sub_borrow(_, _, _)
big_sub_borrow(a, b, borrow) ==
    IF a = <<>> /\ b = <<>> THEN <<>>
    ELSE <<(low_limb(a) - low_limb(b) - borrow + LimbBase) % LimbBase>>
         \o big_sub_borrow(high_limbs(a), high_limbs(b),
                           IF low_limb(a) - low_limb(b) - borrow < 0 THEN 1 ELSE 0)

big_sub(a, b) == big_trim(big_sub_borrow(a, b, 0))

\* a * d + carry for one digit d
RECURSIVE big_mul_small(_, _, _)
big_mul_small(a, d, carry) ==
    IF a = <<>> THEN big_of(carry)
    ELSE <<(a[1] * d + carry) % LimbBase>>
         \o big_mul_small(Tail(a), d, (a[1] * d + carry) \div LimbBase)

RECURSIVE big_mul(_, _)
big_mul(a, b) ==
    IF a = <<>> \/ b = <<>> THEN <<>>
    ELSE big_trim(big_add(big_mul_small(a, b[1], 0), <<0>> \o big_mul(a, Tail(b))))

\* a < b
RECURSIVE big_lt(_, _)
big_lt(a, b) ==
    IF Len(a) # Len(b) THEN Len(a) < Len(b)
    ELSE IF a = <<>> THEN FALSE
    ELSE IF a[Len(a)] # b[Len(b)] THEN a[Len(a)] < b[Len(b)]
    ELSE big_lt(SubSeq(a, 1, Len(a) - 1), SubSeq(b, 1, Len(b) - 1))

RECURSIVE bit_length(_)
bit_length(n) == IF n = 0 THEN 0 ELSE 1 + bit_length(n \div 2)

\* the bits of a digit of a big number
LimbBits == bit_length(LimbBase) - 1

\* the number of bits of a
big_bit_length(a) ==
    IF a = <<>> THEN 0 ELSE LimbBits * (Len(a) - 1) + bit_length(a[Len(a)])

\* bit i of a, bit 0 the lowest
big_bit(a, i) ==
    IF i \div LimbBits + 1 > Len(a) THEN 0
    ELSE (a[i \div LimbBits + 1] \div (2 ^ (i % LimbBits))) % 2

\* a * 2^k
big_shl(a, k) ==
    IF a = <<>> THEN <<>>
    ELSE big_trim([i \in 1..(k \div LimbBits) |-> 0]
                  \o big_mul_small(a, 2 ^ (k % LimbBits), 0))

\* the quotient of the digits from the top by one digit d, after the
\* remainder so far
RECURSIVE big_div_small(_, _, _)
big_div_small(a, d, remainder) ==
    IF a = <<>> THEN <<>>
    ELSE Append(big_div_small(SubSeq(a, 1, Len(a) - 1), d,
                              (remainder * LimbBase + a[Len(a)]) % d),
                (remainder * LimbBase + a[Len(a)]) \div d)

\* floor(a / 2^k)
big_shr(a, k) ==
    IF k \div LimbBits >= Len(a) THEN <<>>
    ELSE big_trim(big_div_small(SubSeq(a, k \div LimbBits + 1, Len(a)),
                                2 ^ (k % LimbBits), 0))

\* 2 * a + bit
big_double_plus(a, bit) == big_trim(big_mul_small(a, 2, bit))

\* the largest digit d, from the digit found so far and the bits from the
\* one given down, with d * b <= a
RECURSIVE digit_search(_, _, _, _)
digit_search(a, b, digit, bit) ==
    IF bit < 0 THEN digit
    ELSE IF big_lt(a, big_mul_small(b, digit + 2 ^ bit, 0))
    THEN digit_search(a, b, digit, bit - 1)
    ELSE digit_search(a, b, digit + 2 ^ bit, bit - 1)

\* floor(a / b), b > 0, by long division over the digits of a from the top,
\* after the remainder so far
RECURSIVE big_div_from(_, _, _)

div_emit(a, b, current, digit) ==
    Append(big_div_from(SubSeq(a, 1, Len(a) - 1), b,
                        big_sub(current, big_mul_small(b, digit, 0))),
           digit)

div_step(a, b, current) == div_emit(a, b, current, digit_search(current, b, 0, LimbBits - 1))

big_div_from(a, b, remainder) ==
    IF a = <<>> THEN <<>>
    ELSE div_step(a, b, big_trim(<<a[Len(a)]>> \o remainder))

big_div(a, b) == big_trim(big_div_from(a, b, <<>>))

\* the double of a natural number below 2^31
fl_int(n) == <<big_of(n), 0>>

\* q * 2^e, or the next double up, for the remainder left of the bits cut
\* off and half of the last place kept
round_pick(q, remainder, half, e) ==
    IF big_lt(half, remainder) \/ (remainder = half /\ low_limb(q) % 2 = 1)
    THEN <<big_add(q, <<1>>), e>>
    ELSE <<q, e>>

\* m * 2^e without its lowest k bits, rounded to nearest, ties to even
round_shift(m, e, k) ==
    round_pick(big_shr(m, k), big_sub(m, big_shl(big_shr(m, k), k)),
               big_shl(<<1>>, k - 1), e + k)

\* the double nearest to m * 2^e
fl_round(m, e) ==
    IF big_bit_length(m) <= MantissaBits THEN <<m, e>>
    ELSE round_shift(m, e, big_bit_length(m) - MantissaBits)

fl_zero == <<<<>>, 0>>

\* x * y
fl_mul(x, y) ==
    IF x[1] = <<>> \/ y[1] = <<>> THEN fl_zero
    ELSE fl_round(big_mul(x[1], y[1]), x[2] + y[2])

min_int(a, b) == IF a <= b THEN a ELSE b

\* the mantissa of x at the exponent e <= x[2]
mantissa_at(x, e) == big_shl(x[1], x[2] - e)

\* x + y
fl_add(x, y) ==
    IF x[1] = <<>> THEN y
    ELSE IF y[1] = <<>> THEN x
    ELSE
    fl_round(big_add(mantissa_at(x, min_int(x[2], y[2])),
                     mantissa_at(y, min_int(x[2], y[2]))),
             min_int(x[2], y[2]))

\* x < y
fl_lt(x, y) ==
    IF x[1] = <<>> THEN y[1] # <<>>
    ELSE IF y[1] = <<>> THEN FALSE
    ELSE
    big_lt(mantissa_at(x, min_int(x[2], y[2])), mantissa_at(y, min_int(x[2], y[2])))

\* x <= y
fl_leq(x, y) == ~fl_lt(y, x)

\* x - y, x >= y
fl_sub(x, y) ==
    IF y[1] = <<>> THEN x
    ELSE IF x = y THEN fl_zero
    ELSE
    fl_round(big_sub(mantissa_at(x, min_int(x[2], y[2])),
                     mantissa_at(y, min_int(x[2], y[2]))),
             min_int(x[2], y[2]))

\* the bits by which the dividend is extended, so that the quotient has
\* two bits more than a mantissa
quotient_shift(x, y) ==
    IF MantissaBits + 2 + big_bit_length(y[1]) - big_bit_length(x[1]) > 0
    THEN MantissaBits + 2 + big_bit_length(y[1]) - big_bit_length(x[1])
    ELSE 0

\* the quotient with one bit more that says whether the division left a
\* remainder
sticky_quotient(dividend, divisor, quotient) ==
    big_double_plus(quotient,
                    IF big_mul(quotient, divisor) = dividend THEN 0 ELSE 1)

\* x / y, y > 0
fl_div(x, y) ==
    IF x[1] = <<>> \/ y = <<<<1>>, 0>> THEN x
    ELSE fl_round(sticky_quotient(big_shl(x[1], quotient_shift(x, y)), y[1],
                                  big_div(big_shl(x[1], quotient_shift(x, y)), y[1])),
                  x[2] - y[2] - quotient_shift(x, y) - 1)

\* the double a decimal literal num/den stands for, and int / int
fl_ratio(num, den) == fl_div(fl_int(num), fl_int(den))

\* min(x, y) and max(x, y) of Python
fl_min(x, y) == IF fl_lt(y, x) THEN y ELSE x

fl_max(x, y) == IF fl_lt(x, y) THEN y ELSE x

\* int(x)
fl_trunc(x) ==
    IF x[1] = <<>> THEN 0
    ELSE IF x[2] >= 0 THEN big_int(big_shl(x[1], x[2])) ELSE big_int(big_shr(x[1], -x[2]))

\* the integer nearest to m / 2^k, ties to even
nearest_int(m, k) == big_int(round_shift(m, 0, k)[1])

\* round(x, ndigits), as the decimal fraction it is
fl_round_to(x, ndigits) ==
    IF x[1] = <<>> THEN R(0)
    ELSE IF x[2] >= 0 THEN R(big_int(big_shl(x[1], x[2])))
    ELSE Rat(nearest_int(big_mul(x[1], big_of(10 ^ ndigits)), -x[2]), 10 ^ ndigits)

-----------------------------------------------------------------------------
(* The metrics of generate_realistic_engagement_metrics                    *)
(* (src/model/engagement_evaluator.py): the numbers of its four sections   *)
(* and the two lists of its summary, flattened into one record.  The       *)
(* function computes in doubles and so does the model: int() cuts the      *)
(* double the code has, which can lie just under the exact number.  The    *)
(* score argument lies in [0, 35].  The record holds a rounded metric as   *)
(* the decimal fraction round() gave.                                      *)

\* the cues counted for the student turns
engagement_indicator_words ==
    << <<"q", "u", "e", "s", "t", "i", "o", "n">>,
       <<"a", "s", "k">>,
       <<"y", "e", "s", "?">>,
       <<"g", "o", "o", "d", " ", "q", "u", "e", "s", "t", "i", "o", "n">>,
       <<"a", "n", "y", "o", "n", "e">>,
       <<"t", "h", "o", "u", "g", "h", "t", "s">> >>

\* max of two ints
max_int(a, b) == IF a >= b THEN a ELSE b

\* the double of a score that is not negative
fl_of(x) == fl_ratio(x[1], x[2])

\* base_score / 35.0
score_share(base_score) == fl_div(fl_of(base_score), fl_int(35))

\* min(max(2.0 + (base_score / 35.0) * 13.0, 3.0), 15.0)
student_talk_ratio(base_score) ==
    fl_min(fl_max(fl_add(fl_int(2), fl_mul(score_share(base_score), fl_int(13))), fl_int(3)),
           fl_int(15))

\* max(int((engagement_indicators + question_marks) * 0.8), 2)
student_turn_count(transcript_text) ==
    max_int(fl_trunc(fl_mul(fl_int(count_all(lower(transcript_text),
                                             engagement_indicator_words)
                                       + count(transcript_text, QUESTION_MARK)),
                            fl_ratio(8, 10))),
            2)

\* word_count / 120
estimated_duration(transcript_text) == fl_ratio(Len(split(transcript_text)), 120)

\* round((student_turn_count / estimated_duration) * 10, 1), 0.0 without words
turns_per_10min(transcript_text) ==
    IF fl_lt(fl_zero, estimated_duration(transcript_text))
    THEN fl_round_to(fl_mul(fl_div(fl_int(student_turn_count(transcript_text)),
                                   estimated_duration(transcript_text)),
                            fl_int(10)),
                     1)
    ELSE R(0)

\* max(student_turn_count, 3)
total_questions(transcript_text) == max_int(student_turn_count(transcript_text), 3)

\* low + (part / whole) * span
share_of(low, part, whole, span) == fl_add(low, fl_mul(fl_div(part, fl_int(whole)), span))

\* the share of conceptual questions in the three score bands
conceptual_pct(base_score) ==
    IF RLeq(R(25), base_score)
    THEN share_of(fl_ratio(4, 10), fl_sub(fl_of(base_score), fl_int(25)), 35, fl_ratio(3, 10))
    ELSE IF RLeq(R(15), base_score)
    THEN share_of(fl_ratio(25, 100), fl_sub(fl_of(base_score), fl_int(15)), 20,
                  fl_ratio(25, 100))
    ELSE share_of(fl_ratio(15, 100), fl_of(base_score), 15, fl_ratio(15, 100))

\* the share of clarification questions in the three score bands
clarification_pct(base_score) ==
    IF RLeq(R(25), base_score)
    THEN share_of(fl_ratio(2, 10), fl_sub(fl_int(35), fl_of(base_score)), 35, fl_ratio(2, 10))
    ELSE IF RLeq(R(15), base_score)
    THEN share_of(fl_ratio(35, 100), fl_sub(fl_int(25), fl_of(base_score)), 20,
                  fl_ratio(15, 100))
    ELSE share_of(fl_ratio(4, 10), fl_sub(fl_int(15), fl_of(base_score)), 15, fl_ratio(2, 10))

\* max(1, int(total_questions * conceptual_pct))
conceptual_count(transcript_text, base_score) ==
    max_int(1, fl_trunc(fl_mul(fl_int(total_questions(transcript_text)),
                               conceptual_pct(base_score))))

\* max(1, int(total_questions * clarification_pct))
clarification_count(transcript_text, base_score) ==
    max_int(1, fl_trunc(fl_mul(fl_int(total_questions(transcript_text)),
                               clarification_pct(base_score))))

\* max(total_questions - conceptual_count - clarification_count, 1)
procedural_count(transcript_text, base_score) ==
    max_int(total_questions(transcript_text) - conceptual_count(transcript_text, base_score)
                - clarification_count(transcript_text, base_score),
            1)

\* max(2.0, 20.0 - (base_score / 35.0) * 15.0)
off_topic_ratio(base_score) ==
    fl_max(fl_int(2), fl_sub(fl_int(20), fl_mul(score_share(base_score), fl_int(15))))

\* generate_realistic_strengths
generate_realistic_strengths(base_score, talk_ratio, conceptual_questions) ==
    take((IF fl_leq(fl_int(10), talk_ratio)
          THEN <<"Good level of student participation and interaction">>
          ELSE IF fl_leq(fl_int(6), talk_ratio)
          THEN <<"Moderate student engagement with room for growth">>
          ELSE <<>>)
         \o (IF conceptual_questions >= 3
             THEN <<"Students asking thoughtful, concept-oriented questions">>
             ELSE IF conceptual_questions >= 2
             THEN <<"Some evidence of deeper student thinking">>
             ELSE <<>>)
         \o (IF RLeq(R(25), base_score)
             THEN <<"Strong overall classroom engagement dynamics">>
             ELSE IF RLeq(R(20), base_score)
             THEN <<"Positive learning environment with active participation">>
             ELSE <<>>),
         3)

\* generate_realistic_improvements
generate_realistic_improvements(base_score, talk_ratio, off_topic) ==
    take((IF fl_lt(talk_ratio, fl_int(8))
          THEN <<"Increase opportunities for student questions and discussion">>
          ELSE <<>>)
         \o (IF fl_lt(fl_int(15), off_topic)
             THEN <<"Guide discussions to stay more focused on lecture topics">>
             ELSE <<>>)
         \o (IF RLt(base_score, R(20))
             THEN <<"Incorporate more interactive teaching techniques",
                    "Consider adding polls, breakout discussions, or Q&A sessions">>
             ELSE IF RLt(base_score, R(25))
             THEN <<"Build on current engagement with more structured interaction">>
             ELSE <<>>),
         3)

\* generate_realistic_engagement_metrics
generate_realistic_engagement_metrics(transcript_text, base_score) ==
    [student_talk_ratio |-> fl_round_to(student_talk_ratio(base_score), 1),
     total_student_turns |-> R(student_turn_count(transcript_text)),
     average_student_turn_length |->
         fl_round_to(share_of(fl_int(8), student_talk_ratio(base_score), 15, fl_int(12)), 1),
     back_and_forth_ratio |->
         fl_round_to(fl_min(fl_max(fl_add(fl_ratio(1, 10),
                                          fl_mul(score_share(base_score), fl_ratio(25, 100))),
                                   fl_ratio(1, 10)),
                            fl_ratio(4, 10)),
                     3),
     turns_per_10min |-> turns_per_10min(transcript_text),
     conceptual_deep |-> R(conceptual_count(transcript_text, base_score)),
     clarification_surface |-> R(clarification_count(transcript_text, base_score)),
     procedural_admin |-> R(procedural_count(transcript_text, base_score)),
     elaboration_index |->
         fl_round_to(fl_add(fl_int(1), fl_mul(score_share(base_score), fl_ratio(25, 10))), 2),
     dialogue_depth |->
         fl_round_to(fl_add(fl_ratio(15, 10),
                            fl_mul(score_share(base_score), fl_ratio(25, 10))),
                     2),
     topical_overlap |->
         fl_round_to(fl_add(fl_ratio(4, 10), fl_mul(score_share(base_score), fl_ratio(4, 10))),
                     3),
     content_coverage |->
         fl_round_to(fl_add(fl_int(60), fl_mul(score_share(base_score), fl_int(30))), 1),
     off_topic_ratio |-> fl_round_to(off_topic_ratio(base_score), 1),
     engagement_diversity |->
         fl_round_to(fl_add(fl_ratio(3, 10), fl_mul(score_share(base_score), fl_ratio(4, 10))),
                     3),
     turn_distribution_inequality |->
         fl_round_to(fl_max(fl_ratio(2, 10),
                            fl_sub(fl_ratio(7, 10),
                                   fl_mul(score_share(base_score), fl_ratio(4, 10)))),
                     3),
     overall_score |->
         R(min_int(fl_trunc(fl_mul(fl_of(base_score), fl_ratio(100, 35))), 100)),
     primary_strengths |->
         generate_realistic_strengths(base_score, student_talk_ratio(base_score),
                                      conceptual_count(transcript_text, base_score)),
     areas_for_improvement |->
         generate_realistic_improvements(base_score, student_talk_ratio(base_score),
                                         off_topic_ratio(base_score))]

EngagementScores ==
    [k \in Transcripts \X SlidesStrings |-> calculate_engagement_score(k[1], k[2])] @@ <<>>

EngagementSyncScores ==
    [k \in Transcripts \X SlidesStrings |-> calculate_engagement_score_sync(k[1], k[2])] @@ <<>>

-----------------------------------------------------------------------------
(* Completions of the fact-checking prompts.  A completion is kept by how  *)
(* it parses, which is all the code looks at:                              *)
(*   form "object"        valid JSON, an object                            *)
(*   form "value"         valid JSON, not an object (a list, a number...)  *)
(*   form "prose_object"  not valid JSON, with one JSON object inside      *)
(*   form "prose"         not valid JSON, no JSON object inside            *)
(* claims holds the judgment of each entry of "claims" and digressions the *)
(* severity of each entry of "digressions" (absent keys read as empty      *)
(* lists); NonDict stands for an entry that is not a JSON object.  method  *)
(* is the value of a top-level "method" key, "" when the object has none.  *)

Judgments == {"Correct", "Incorrect", "Unsupported", "Other"}

Severities == {"High", "Medium", "Low"}

NonDict == "<not an object>"

SeqsUpTo(S, n) == UNION {[1..k -> S] : k \in 0..n}

FactCheckTexts ==
    {[form |-> f, claims |-> c, digressions |-> d, method |-> ""] :
        f \in {"object", "prose_object"},
        c \in SeqsUpTo(Judgments \cup {NonDict}, MaxClaims),
        d \in SeqsUpTo(Severities \cup {NonDict}, MaxDigressions)}
    \cup {[form |-> f, claims |-> <<>>, digressions |-> <<>>, method |-> ""] :
            f \in {"value", "prose"}}

\* what one chat.completions.create call can do: raise, or return a text
FactCheckOutcomes ==
    {[raised |-> TRUE,
      text |-> [form |-> "prose", claims |-> <<>>, digressions |-> <<>>, method |-> ""]]}
    \cup {[raised |-> FALSE, text |-> t] : t \in FactCheckTexts}

\* json.loads(text) succeeds
json_loads_ok(text) == text.form \in {"object", "value"}

\* the value json.loads gave is a dict
is_dict(text) == text.form = "object"

\* len([c for c in claims if c.get('judgment') == j])
count_judgment(claims, j) == Cardinality({i \in 1..Len(claims) : claims[i] = j})

\* some entry of the list has no .get
has_non_dict(items) == \E i \in 1..Len(items) : items[i] = NonDict

-----------------------------------------------------------------------------
(* Fact check agent (src/model/fact_check_agent_custom.py).                *)

\* FactCheckAgent.run and Runner.run: the final_output handed to the
\* correctness evaluator.  An API error is returned as a JSON object with
\* the keys "error" and "method"; valid JSON is re-serialised; anything else
\* is passed on as it came.
FactCheckAgent_run(outcome) ==
    IF outcome.raised
    THEN [form |-> "object", claims |-> <<>>, digressions |-> <<>>,
          method |-> "fact_check_agent_error"]
    ELSE outcome.text

-----------------------------------------------------------------------------
(* Correctness evaluator (src/model/correctness_evaluator.py).             *)
(* An analysis is [exc, ratio, method, tier]: exc says the function raised *)
(* instead of returning, ratio is the correctness ratio it returned,       *)
(* method the 'method' entry of the details ("" when there is none), and   *)
(* tier the function whose arithmetic produced the ratio.                  *)

Raised == [exc |-> TRUE, ratio |-> R(0), method |-> "", tier |-> "none"]

\* the digression penalty of the agent tier
RECURSIVE agent_digression_penalty(_)
agent_digression_penalty(digressions) ==
    IF Len(digressions) = 0 THEN R(0)
    ELSE RAdd(CASE Head(digressions) = "High" -> Rat(5, 100)
                [] Head(digressions) = "Medium" -> Rat(3, 100)
                [] OTHER -> Rat(1, 100),
              agent_digression_penalty(Tail(digressions)))

\* the JSON recovery of analyze_content_correctness_with_agent: direct parse,
\* then the regex patterns, then the empty-claims structure
agent_parse(raw_output) ==
    IF json_loads_ok(raw_output) THEN raw_output
    ELSE IF raw_output.form = "prose_object"
         THEN [raw_output EXCEPT !.form = "object"]
         ELSE [form |-> "object", claims |-> <<>>, digressions |-> <<>>, method |-> ""]

\* the handler of analyze_content_correctness_with_agent's try block
agent_handler ==
    [exc |-> FALSE, ratio |-> Rat(6, 10), method |-> "fact_check_agent_fallback",
     tier |-> "agent"]

\* the weighted ratio of the agent tier without the floor at 0.1
agent_final_score_unfloored(claims, digressions) ==
    RSub(Rat(count_judgment(claims, "Correct") * 10
             + count_judgment(claims, "Unsupported") * 7
             + count_judgment(claims, "Incorrect") * 2,
             10 * Len(claims)),
         agent_digression_penalty(digressions))

\* the weighted ratio of the agent tier: Correct 1.0, Unsupported 0.7,
\* Incorrect 0.2, less the digression penalty, floor 0.1
agent_final_score(claims, digressions) ==
    RMax(Rat(1, 10),
         RSub(Rat(count_judgment(claims, "Correct") * 10
                  + count_judgment(claims, "Unsupported") * 7
                  + count_judgment(claims, "Incorrect") * 2,
                  10 * Len(claims)),
              agent_digression_penalty(digressions)))

\* the scoring of analyze_content_correctness_with_agent with the digression
\* penalty taken off the default for an empty list of claims
agent_analysis_penalised(fact_check_data) ==
    IF ~is_dict(fact_check_data) \/ has_non_dict(fact_check_data.claims)
       \/ has_non_dict(fact_check_data.digressions)
    THEN agent_handler
    ELSE [exc |-> FALSE,
          ratio |-> IF Len(fact_check_data.claims) = 0
                    THEN RMax(Rat(1, 10),
                              RSub(Rat(7, 10),
                                   agent_digression_penalty(fact_check_data.digressions)))
                    ELSE agent_final_score(fact_check_data.claims,
                                           fact_check_data.digressions),
          method |-> "fact_check_agent", tier |-> "agent"]

\* the scoring of analyze_content_correctness_with_agent once the output is
\* parsed
agent_analysis(fact_check_data) ==
    IF ~is_dict(fact_check_data) THEN agent_handler
    ELSE IF Len(fact_check_data.claims) = 0
    THEN [exc |-> FALSE, ratio |-> Rat(7, 10), method |-> "fact_check_agent",
          tier |-> "agent"]
    ELSE IF has_non_dict(fact_check_data.claims) \/ has_non_dict(fact_check_data.digressions)
    THEN agent_handler
    ELSE [exc |-> FALSE,
          ratio |-> agent_final_score(fact_check_data.claims, fact_check_data.digressions),
          method |-> "fact_check_agent", tier |-> "agent"]

\* analyze_content_correctness_with_agent, given the agent's final_output
analyze_content_correctness_with_agent(agent_available, source_materials, raw_output) ==
    IF ~agent_available \/ strip(source_materials) = <<>> THEN Raised
    ELSE agent_analysis(agent_parse(raw_output))

\* the similarity of two sets of words: overlap over union
similarity_ratio(transcript_words, source_words) ==
    IF Cardinality(transcript_words \cup source_words) > 0
    THEN Rat(Cardinality(transcript_words \cap source_words),
             Cardinality(transcript_words \cup source_words))
    ELSE R(0)

\* analyze_content_correctness_fallback with the transcript's words compared
\* as written, not lower-cased
analyze_content_correctness_fallback_cased(transcript_text, source_materials) ==
    IF strip(source_materials) = <<>>
    THEN [exc |-> FALSE, ratio |-> Rat(6, 10), method |-> "fallback", tier |-> "keyword"]
    ELSE [exc |-> FALSE,
          ratio |-> similarity_ratio(word_set(transcript_text),
                                     word_set(lower(source_materials))),
          method |-> "keyword_overlap_fallback", tier |-> "keyword"]

\* analyze_content_correctness_fallback: keyword overlap
analyze_content_correctness_fallback(transcript_text, source_materials) ==
    IF strip(source_materials) = <<>>
    THEN [exc |-> FALSE, ratio |-> Rat(6, 10), method |-> "fallback", tier |-> "keyword"]
    ELSE [exc |-> FALSE,
          ratio |-> similarity_ratio(word_set(lower(transcript_text)),
                                     word_set(lower(source_materials))),
          method |-> "keyword_overlap_fallback", tier |-> "keyword"]

KeywordOverlaps ==
    [k \in Transcripts \X SourceStrings |->
        analyze_content_correctness_fallback(k[1], k[2])] @@ <<>>

\* the ratio of the direct tier without the floor at 0.0
openai_final_score_unfloored(claims, digressions) ==
    RSub(Rat(count_judgment(claims, "Correct") * 2 + count_judgment(claims, "Unsupported"),
             2 * Len(claims)),
         Rat(Len(digressions) * 5, 100))

\* the ratio of the direct tier for a non-empty list of claims:
\* Correct 1.0, Unsupported 0.5, Incorrect 0.0, 0.05 per digression, floor 0.0
openai_final_score(claims, digressions) ==
    RMax(R(0),
         RSub(Rat(count_judgment(claims, "Correct") * 2 + count_judgment(claims, "Unsupported"),
                  2 * Len(claims)),
              Rat(Len(digressions) * 5, 100)))

\* analyze_content_correctness_with_openai, given the outcome of its API call
analyze_content_correctness_with_openai(openai_available, transcript_text, source_materials, outcome) ==
    IF ~openai_available \/ strip(source_materials) = <<>> THEN Raised
    ELSE IF outcome.raised \/ ~json_loads_ok(outcome.text)
    THEN Memo(KeywordOverlaps, <<transcript_text, source_materials>>,
              analyze_content_correctness_fallback(transcript_text, source_materials))
    ELSE IF ~is_dict(outcome.text) THEN Raised
    ELSE IF Len(outcome.text.claims) = 0
    THEN [exc |-> FALSE, ratio |-> Rat(7, 10),
          method |-> outcome.text.method, tier |-> "openai_direct"]
    ELSE IF has_non_dict(outcome.text.claims) THEN Raised
    ELSE [exc |-> FALSE,
          ratio |-> openai_final_score(outcome.text.claims, outcome.text.digressions),
          method |-> "openai_enhanced", tier |-> "openai_direct"]

\* "Apply bonus for having source materials" of calculate_correctness_score
apply_material_bonus(correctness_ratio, source_materials) ==
    IF strip(source_materials) # <<>>
    THEN RMin(RAdd(correctness_ratio,
                   RMin(Rat(Len(split(source_materials)), 1000), Rat(1, 10))),
              R(1))
    ELSE correctness_ratio

\* the normal return of calculate_correctness_score: bonus, then 40 points.
\* llm says what the tier's LLM call did ("none" when it made no call).
correctness_result(analysis, source_materials, llm) ==
    [exc |-> FALSE,
     score |-> RMul(apply_material_bonus(analysis.ratio, source_materials), R(40)),
     ratio |-> analysis.ratio,
     method |-> analysis.method,
     tier |-> analysis.tier,
     llm |-> llm]

\* the details of the except branch of calculate_correctness_score
density_result(content_density, llm) ==
    [exc |-> FALSE,
     score |-> RMul(content_density, R(40)),
     ratio |-> content_density,
     method |-> "basic_density_fallback",
     tier |-> "density",
     llm |-> llm]

\* the except branch of calculate_correctness_score: content density
basic_density_fallback(transcript_text, duration, llm) ==
    density_result(IF duration # <<>> /\ duration[1] # 0
                   THEN RMin(Rat(Len(split(transcript_text)), duration[1] * 10), R(1))
                   ELSE Rat(1, 2),
                   llm)

\* what the LLM call of a tier did, for the record
llm_kind(outcome) == IF outcome.raised THEN "raised" ELSE outcome.text.form

-----------------------------------------------------------------------------
(* Topic coverage evaluator (src/model/topic_evaluator.py).                *)

\* words taken on each side of a topic mention
ContextWindow == 25

\* each entry of a list of strings, stripped
strip_each(fields) == [i \in 1..Len(fields) |-> strip(fields[i])]

\* the non-empty entries of a list of strings
non_empty(fields) == SelectSeq(fields, LAMBDA field : field # <<>>)

\* extract_topics_from_text with the fields left as split, not stripped
extract_topics_from_text_unstripped(topics_covered) ==
    IF topics_covered = <<>> \/ strip(topics_covered) = <<>> THEN <<>>
    ELSE non_empty(split_sep(topics_covered, COMMA[1], 1, <<>>))

\* extract_topics_from_text: split on commas, strip, drop the empty fields
extract_topics_from_text(topics_covered) ==
    IF topics_covered = <<>> \/ strip(topics_covered) = <<>> THEN <<>>
    ELSE non_empty(strip_each(split_sep(topics_covered, COMMA[1], 1, <<>>)))

\* words_match asking for more than half of the words
words_match_majority(content_lower, topic_words) ==
    /\ Len(topic_words) > 1
    /\ Cardinality({i \in 1..Len(topic_words) : contains(content_lower, topic_words[i])}) * 2
           > Len(topic_words)

\* at least half of the words of a topic of several words occur in the content
words_match(content_lower, topic_words) ==
    /\ Len(topic_words) > 1
    /\ Cardinality({i \in 1..Len(topic_words) : contains(content_lower, topic_words[i])}) * 2
           >= Len(topic_words)

\* analyze_topic_coverage, for one topic: an exact match of the lower-cased
\* topic, or at least half of the words of a topic of several words
topic_is_covered(topic, combined_content) ==
    \/ contains(lower(combined_content), lower(topic))
    \/ words_match(lower(combined_content), split(lower(topic)))

\* the start positions the find loop of analyze_topic_depth visits;
\* mentions_after goes on from the mention found at pos
RECURSIVE mention_positions(_, _, _)
RECURSIVE mentions_after(_, _, _)
mentions_after(content_lower, topic_lower, pos) ==
    IF pos = 0 THEN <<>>
    ELSE <<pos>> \o mention_positions(content_lower, topic_lower, pos + Len(topic_lower))

mention_positions(content_lower, topic_lower, start_pos) ==
    mentions_after(content_lower, topic_lower, find(content_lower, topic_lower, start_pos))

\* words[context_start:context_end] of a text of word_count words, around
\* the word at word_pos: its length
context_span(word_count, word_pos) ==
    IF (IF word_count < word_pos + ContextWindow THEN word_count
        ELSE word_pos + ContextWindow)
       > (IF word_pos - ContextWindow > 0 THEN word_pos - ContextWindow ELSE 0)
    THEN (IF word_count < word_pos + ContextWindow THEN word_count
          ELSE word_pos + ContextWindow)
         - (IF word_pos - ContextWindow > 0 THEN word_pos - ContextWindow ELSE 0)
    ELSE 0

\* the number of words of the context taken around the mention at pos
context_length(combined_content, pos) ==
    context_span(Len(split(combined_content)),
                 Len(split(SubSeq(combined_content, 1, pos - 1))))

RECURSIVE sum_context_lengths(_, _)
sum_context_lengths(combined_content, positions) ==
    IF positions = <<>> THEN 0
    ELSE context_length(combined_content, Head(positions))
         + sum_context_lengths(combined_content, Tail(positions))

\* the depth score of a topic with the given occurrences and contexts
depth_score_of(occurrences, context_words, context_count) ==
    RMin(RAdd(Rat(occurrences * 3, 10),
              RMul(Rat(context_words, context_count), Rat(2, 100))),
         R(5))

\* the depth of analyze_topic_depth with the average taken whether or not
\* the topic occurs: a division by zero when it does not
depth_unguarded(occurrences, contexts, combined_content) ==
    IF Len(contexts) = 0 THEN [exc |-> TRUE, depth_score |-> R(0)]
    ELSE [exc |-> FALSE,
          depth_score |->
              depth_score_of(occurrences, sum_context_lengths(combined_content, contexts),
                             Len(contexts))]

\* analyze_topic_depth for one topic, without the guard on the occurrences
topic_depth_score_unguarded(topic, combined_content) ==
    depth_unguarded(count(lower(combined_content), lower(topic)),
                    mention_positions(lower(combined_content), lower(topic), 1),
                    combined_content)

\* the depth of analyze_topic_depth: occurrences * 0.3 plus 0.02 per word of
\* average context, at most 5.0; 0 for a topic that does not occur
depth_guarded(occurrences, contexts, combined_content) ==
    IF occurrences > 0
    THEN [exc |-> FALSE,
          depth_score |->
              depth_score_of(occurrences, sum_context_lengths(combined_content, contexts),
                             Len(contexts))]
    ELSE [exc |-> FALSE, depth_score |-> R(0)]

\* analyze_topic_depth, for one topic
topic_depth_score(topic, combined_content) ==
    depth_guarded(count(lower(combined_content), lower(topic)),
                  mention_positions(lower(combined_content), lower(topic), 1),
                  combined_content)

\* analyze_topic_depth raises for some topic of the list
depth_raises(topics_list, combined_content) ==
    \E i \in 1..Len(topics_list) : topic_depth_score(topics_list[i], combined_content).exc

\* topic_entry with the coverage score of a covered topic given to every topic
topic_entry_credited(topic, covered, depth_score) ==
    IF covered
    THEN [topic |-> topic,
          coverage_status |->
              IF RLt(Rat(6, 10), depth_score) THEN "well_covered" ELSE "partially_covered",
          coverage_score |-> Rat(8, 10),
          depth_score |-> depth_score]
    ELSE [topic |-> topic,
          coverage_status |-> "not_covered",
          coverage_score |-> Rat(8, 10),
          depth_score |-> R(0)]

\* one entry of topic_analysis, from whether the topic is covered and its
\* depth score scaled to 0-1
topic_entry(topic, covered, depth_score) ==
    IF covered
    THEN [topic |-> topic,
          coverage_status |->
              IF RLt(Rat(6, 10), depth_score) THEN "well_covered" ELSE "partially_covered",
          coverage_score |-> Rat(8, 10),
          depth_score |-> depth_score]
    ELSE [topic |-> topic,
          coverage_status |-> "not_covered",
          coverage_score |-> R(0),
          depth_score |-> R(0)]

\* one entry of topic_analysis in analyze_topic_coverage_fallback
fallback_topic_entry(topic, combined_content) ==
    topic_entry(topic, topic_is_covered(topic, combined_content),
                RMin(RDivInt(topic_depth_score(topic, combined_content).depth_score, 5),
                     R(1)))

(* A topic analysis is [exc, overall, coverage_score, depth_score,         *)
(* analysis_method]: overall says whether 'overall_analysis' is a dict,    *)
(* is missing or is something else; the two scores are [numeric, v], v the *)
(* number when the entry is one (a missing entry reads as 0.0).            *)

Number(x) == [numeric |-> TRUE, v |-> x]

NotANumber == [numeric |-> FALSE, v |-> R(0)]

TopicRaised ==
    [exc |-> TRUE, overall |-> "missing", coverage_score |-> Number(R(0)),
     depth_score |-> Number(R(0)), analysis_method |-> ""]

\* the mean of a non-empty list of numbers, 0 for the empty list
mean(values) == IF Len(values) > 0 THEN RDivInt(RSum(values), Len(values)) ELSE R(0)

\* the overall analysis of analyze_topic_coverage_fallback
fallback_overall(topic_analysis) ==
    [exc |-> FALSE, overall |-> "dict",
     coverage_score |->
         Number(mean([i \in 1..Len(topic_analysis) |-> topic_analysis[i].coverage_score])),
     depth_score |->
         Number(mean([i \in 1..Len(topic_analysis) |-> topic_analysis[i].depth_score])),
     analysis_method |-> "fallback"]

\* analyze_topic_coverage_fallback: the deterministic analysis
analyze_topic_coverage_fallback(topics_list, combined_content) ==
    IF depth_raises(topics_list, combined_content) THEN TopicRaised
    ELSE fallback_overall(
             SubSeq([i \in 1..Len(topics_list) |->
                        fallback_topic_entry(topics_list[i], combined_content)],
                    1, Len(topics_list)))

\* the scores a completion of the topic prompt may carry: json.loads reads
\* NaN, Infinity and -Infinity as floats
TopicValues ==
    {Number(Rat(-1, 1)), Number(Rat(1, 2)), Number(Rat(2, 1)), Number(NaN),
     Number(PosInf), Number(NegInf), NotANumber}

\* completions of the topic prompt, by how they parse
TopicTexts ==
    {[form |-> "object", overall |-> "dict", coverage_score |-> c, depth_score |-> d] :
        c \in TopicValues, d \in TopicValues}
    \cup {[form |-> f, overall |-> o, coverage_score |-> Number(R(0)),
           depth_score |-> Number(R(0))] :
            f \in {"object"}, o \in {"missing", "other"}}
    \cup {[form |-> f, overall |-> "missing", coverage_score |-> Number(R(0)),
           depth_score |-> Number(R(0))] :
            f \in {"value", "prose"}}

TopicOutcomes ==
    {[raised |-> TRUE,
      text |-> [form |-> "prose", overall |-> "missing", coverage_score |-> Number(R(0)),
                depth_score |-> Number(R(0))]]}
    \cup {[raised |-> FALSE, text |-> t] : t \in TopicTexts}

(* A topic result is [exc, score, method]: method is 'analysis_method'.    *)

TopicScoreRaised == [exc |-> TRUE, score |-> R(0), method |-> ""]

\* "Extract scores" and "Calculate final score" of
\* calculate_topic_coverage_score: 70% coverage, 30% depth, at most 10.0
topic_final_score(analysis) ==
    IF analysis.exc \/ analysis.overall = "other" THEN TopicScoreRaised
    ELSE IF analysis.overall = "missing"
    THEN [exc |-> FALSE, score |-> R(0), method |-> analysis.analysis_method]
    ELSE IF ~analysis.coverage_score.numeric \/ ~analysis.depth_score.numeric
    THEN TopicScoreRaised
    ELSE [exc |-> FALSE,
          score |-> RMin(RAdd(RMul(analysis.coverage_score.v, R(7)),
                              RMul(analysis.depth_score.v, R(3))),
                         R(10)),
          method |-> analysis.analysis_method]

\* the score of the "Final fallback": 7 points for the share of covered
\* topics, up to 3 for the average depth
original_score(covered, topic_count, average_depth) ==
    [exc |-> FALSE,
     score |-> RMin(RAdd(RMul(Rat(covered, topic_count), R(7)),
                         RMin(RMul(average_depth, Rat(6, 10)), R(3))),
                    R(10)),
     method |-> "original_fallback"]

\* the "Final fallback" of calculate_topic_coverage_score
original_fallback(topics_list, combined_content) ==
    IF depth_raises(topics_list, combined_content) THEN TopicScoreRaised
    ELSE original_score(
             Cardinality({i \in 1..Len(topics_list) :
                             topic_is_covered(topics_list[i], combined_content)}),
             Len(topics_list),
             mean(SubSeq([i \in 1..Len(topics_list) |->
                             topic_depth_score(topics_list[i], combined_content).depth_score],
                         1, Len(topics_list))))

\* what a tier returned, or what the next one does when the tier raised
or_else(tier, next_tier) == IF ~tier.exc THEN tier ELSE next_tier

\* the deterministic tiers of calculate_topic_coverage_score
topic_fallback_tiers(topics_list, combined_content) ==
    or_else(topic_final_score(analyze_topic_coverage_fallback(topics_list, combined_content)),
            original_fallback(topics_list, combined_content))

\* the combined content of calculate_comprehensive_lecture_score
comprehensive_combined_content(transcript, source, slides) ==
    transcript
    \o (IF source # <<>> THEN SOURCE_HEADER \o source ELSE <<>>)
    \o (IF slides # <<>> THEN SLIDES_HEADER \o slides ELSE <<>>)

\* the combined content of run_fallback_evaluation
fallback_combined_content(transcript, source, slides) ==
    transcript
    \o (IF source # <<>> THEN PARAGRAPH \o source ELSE <<>>)
    \o (IF slides # <<>> THEN PARAGRAPH \o slides ELSE <<>>)

\* the topic lists and contents the inputs give rise to
TopicInputs ==
    {<<extract_topics_from_text(tp), comprehensive_combined_content(t, s, sl)>> :
        tp \in TopicStrings \ {<<>>}, t \in Transcripts, s \in SourceStrings,
        sl \in SlidesStrings}
    \cup {<<extract_topics_from_text(tp), fallback_combined_content(t, s, sl)>> :
        tp \in TopicStrings \ {<<>>}, t \in Transcripts, s \in SourceStrings,
        sl \in SlidesStrings}

TopicFallbacks == [k \in TopicInputs |-> topic_fallback_tiers(k[1], k[2])] @@ <<>>

TopicFallbackAnalyses ==
    [k \in TopicInputs |-> analyze_topic_coverage_fallback(k[1], k[2])] @@ <<>>

\* analyze_topic_coverage_with_openai, given the outcome of its API call:
\* an API error, a text that is not JSON and a JSON value that takes no
\* 'analysis_method' entry all end in the deterministic analysis
analyze_topic_coverage_with_openai(openai_available, topics_list, combined_content, outcome) ==
    IF ~openai_available \/ topics_list = <<>> THEN TopicRaised
    ELSE IF outcome.raised \/ ~json_loads_ok(outcome.text) \/ ~is_dict(outcome.text)
    THEN Memo(TopicFallbackAnalyses, <<topics_list, combined_content>>,
              analyze_topic_coverage_fallback(topics_list, combined_content))
    ELSE [exc |-> FALSE, overall |-> outcome.text.overall,
          coverage_score |-> outcome.text.coverage_score,
          depth_score |-> outcome.text.depth_score,
          analysis_method |-> "openai_enhanced"]

\* calculate_topic_coverage_score before any API call: the result when the
\* function makes no call
topic_score_without_call(topics_covered, combined_content) ==
    IF extract_topics_from_text(topics_covered) = <<>>
    THEN [exc |-> FALSE, score |-> R(5), method |-> "no_topics"]
    ELSE Memo(TopicFallbacks,
              <<extract_topics_from_text(topics_covered), combined_content>>,
              topic_fallback_tiers(extract_topics_from_text(topics_covered),
                                   combined_content))

\* calculate_topic_coverage_score calls the API
topic_calls_llm(topics_covered, openai_available) ==
    extract_topics_from_text(topics_covered) # <<>> /\ openai_available

\* calculate_topic_coverage_score with its try/except around the AI tier
\* left out: what the AI tier raises reaches the caller
topic_score_with_call_uncaught(topics_covered, combined_content, openai_available, outcome) ==
    topic_final_score(
        analyze_topic_coverage_with_openai(openai_available,
            extract_topics_from_text(topics_covered), combined_content, outcome))

\* calculate_topic_coverage_score, given the outcome of its API call
topic_score_with_call(topics_covered, combined_content, openai_available, outcome) ==
    or_else(topic_final_score(
                analyze_topic_coverage_with_openai(openai_available,
                    extract_topics_from_text(topics_covered), combined_content, outcome)),
            Memo(TopicFallbacks,
                 <<extract_topics_from_text(topics_covered), combined_content>>,
                 topic_fallback_tiers(extract_topics_from_text(topics_covered),
                                      combined_content)))

-----------------------------------------------------------------------------
(* Orchestrator (src/model/lecture_evaluator.py).                          *)

\* the three entries of score_components
Components(c, e, t) ==
    ("Correctness" :> c) @@ ("Engagement" :> e) @@ ("Topic Coverage" :> t)

\* a returned triple: total_score, score_components, and of the details the
\* evaluation_method and the method each component's details record
Triple(components, evaluation_method, methods) ==
    [total_score |->
        RSum(<<components["Correctness"], components["Engagement"],
               components["Topic Coverage"]>>),
     components |-> components,
     evaluation_method |-> evaluation_method,
     methods |-> methods]

\* the try body with the engagement score rescaled from 35 points onto 30
comprehensive_result_rescaled(correctness_details, engagement_details, topic_details) ==
    Triple(Components(RMin(RMul(correctness_details.score, Rat(75, 100)), R(40)),
                      RMin(RMul(engagement_details.score, Rat(30, 35)), R(30)),
                      RMin(RMul(topic_details.score, R(3)), R(30))),
           "comprehensive_ai_analysis",
           [correctness |-> correctness_details.method,
            engagement |-> engagement_details.method,
            topic_coverage |-> topic_details.method])

\* the try body of calculate_comprehensive_lecture_score once the three
\* evaluators have returned
comprehensive_result(correctness_details, engagement_details, topic_details) ==
    Triple(Components(RMin(RMul(correctness_details.score, Rat(75, 100)), R(40)),
                      RMin(RMul(engagement_details.score, Rat(571, 1000)), R(30)),
                      RMin(RMul(topic_details.score, R(3)), R(30))),
           "comprehensive_ai_analysis",
           [correctness |-> correctness_details.method,
            engagement |-> engagement_details.method,
            topic_coverage |-> topic_details.method])

\* the except branch of calculate_comprehensive_lecture_score, taken when
\* the topic evaluator raises: the details of the two evaluators that had
\* returned stay in the analysis
fallback_analysis_result(transcript, correctness_details, engagement_details) ==
    Triple(Components(RMin(Rat(Len(split(transcript)), 200), R(30)),
                      RMin(Rat(count(transcript, QUESTION_MARK) * 25, 10), R(20)),
                      R(20)),
           "fallback_analysis",
           [correctness |-> correctness_details.method,
            engagement |-> engagement_details.method,
            topic_coverage |-> ""])

\* the overlap of two sets of words over their union, 0.5 when both are empty
overlap_ratio(transcript_words, source_words) ==
    IF Cardinality(transcript_words \cup source_words) > 0
    THEN Rat(Cardinality(transcript_words \cap source_words),
             Cardinality(transcript_words \cup source_words))
    ELSE Rat(1, 2)

\* the correctness ratio of run_fallback_evaluation
fallback_correctness_ratio(transcript, duration, source) ==
    IF strip(source) # <<>>
    THEN overlap_ratio(word_set(lower(transcript)), word_set(lower(source)))
    ELSE IF duration # <<>> /\ duration[1] # 0
         THEN RMin(Rat(Len(split(transcript)), duration[1] * 10), R(1))
         ELSE Rat(1, 2)

FallbackCorrectnessRatios ==
    [k \in Transcripts \X Durations \X SourceStrings |->
        fallback_correctness_ratio(k[1], k[2], k[3])] @@ <<>>

\* the triple of run_fallback_evaluation
fallback_result(correctness_ratio, engagement_details, topic_details) ==
    Triple(Components(RMul(correctness_ratio, R(30)),
                      RMin(RMul(engagement_details.score, Rat(571, 1000)), R(20)),
                      RMin(RMul(topic_details.score, R(3)), R(30))),
           "fallback_synchronous",
           [correctness |-> "fallback_keyword_overlap",
            engagement |-> engagement_details.method,
            topic_coverage |-> topic_details.method])

\* run_fallback_evaluation, given what its call of
\* calculate_topic_coverage_score returned
run_fallback_evaluation(transcript, duration, source, slides, topic_details) ==
    fallback_result(Memo(FallbackCorrectnessRatios, <<transcript, duration, source>>,
                         fallback_correctness_ratio(transcript, duration, source)),
                    Memo(EngagementSyncScores, <<transcript, slides>>,
                         calculate_engagement_score_sync(transcript, slides)),
                    topic_details)

-----------------------------------------------------------------------------
(* One call of run_evaluation_sync.                                        *)
(*                                                                         *)
(* The caller's thread (main_pc) submits run_async_eval to an executor of  *)
(* one worker and waits for the future with a timeout.  The worker thread  *)
(* (worker_pc) runs calculate_comprehensive_lecture_score: correctness,    *)
(* engagement, topic coverage, with one step per LLM call and per reply.   *)
(* A reply may never come: no step is ever forced.                         *)

VARIABLES
    request,                    \* the arguments of the call
    FACT_CHECK_AGENT_AVAILABLE, \* the module flags set at import
    OPENAI_AVAILABLE,
    main_pc,                    \* where the caller's thread is
    worker_pc,                  \* where the worker thread is
    correctness,                \* <<>> or <<what calculate_correctness_score returned>>
    engagement,                 \* <<>> or <<what the engagement evaluator last returned>>
    topic_coverage,             \* <<>> or <<what calculate_topic_coverage_score last did>>
    future,                     \* <<>> or <<the triple run_async_eval returned>>
    result,                     \* <<>> or <<the triple run_evaluation_sync returned>>
    timed_out                   \* future.result(timeout=60) has raised TimeoutError

(* The engagement heuristic called on its own, on transcripts that grow by *)
(* one cue at a time.                                                      *)

VARIABLES
    cues,                       \* how many cues of each kind the transcript holds
    base_scores                 \* the base score each heuristic gave that transcript

(* The report generated from the details the evaluators returned.          *)

VARIABLES
    analysis_details,           \* the evaluation method and the details stored so far
    report                      \* <<>> or <<the report generated>>

(* The agent tier's scoring called on its own, on agent outputs that grow  *)
(* by one claim or one digression at a time.                               *)

VARIABLES
    agent_output,               \* the parsed output of the fact-checking agent
    agent_returned              \* <<>> or <<what the agent tier returned for it>>

(* The engagement metrics generated for one transcript at rising scores.   *)

VARIABLES
    metric_calls                \* the calls made so far: [base_score, metrics] each

(* The assembly of a triple by calculate_comprehensive_lecture_score or    *)
(* run_fallback_evaluation, one assignment of the code at a time, each     *)
(* evaluator called by the former being free to raise.                     *)

VARIABLES
    assembly_pc,                \* where the assembling function is
    score_components,           \* the score_components dict so far
    detailed_analysis,          \* the detailed_analysis dict so far
    assembled                   \* <<>> or <<the triple the function returned>>

inputs == <<request, FACT_CHECK_AGENT_AVAILABLE, OPENAI_AVAILABLE>>

pipeline_vars == <<inputs, main_pc, worker_pc, correctness, engagement, topic_coverage,
                   future, result, timed_out>>

heuristic_vars == <<cues, base_scores>>

report_vars == <<analysis_details, report>>

scoring_vars == <<agent_output, agent_returned>>

metrics_vars == <<metric_calls>>

assembly_vars == <<assembly_pc, score_components, detailed_analysis, assembled>>

vars == <<request, FACT_CHECK_AGENT_AVAILABLE, OPENAI_AVAILABLE, main_pc, worker_pc,
          correctness, engagement, topic_coverage, future, result, timed_out,
          cues, base_scores, analysis_details, report, agent_output, agent_returned,
          metric_calls, assembly_pc, score_components, detailed_analysis, assembled>>

Requests ==
    [transcript_text : Transcripts, topics_covered : TopicStrings, duration : Durations,
     source_materials : SourceStrings, slides_content : SlidesStrings]

\* no call of run_evaluation_sync has begun
PipelineIdle ==
    /\ main_pc = "start"
    /\ worker_pc = "idle"
    /\ correctness = <<>>
    /\ engagement = <<>>
    /\ topic_coverage = <<>>
    /\ future = <<>>
    /\ result = <<>>
    /\ timed_out = FALSE

\* the transcript without a cue
NoCues == [question |-> 0, engagement |-> 0, marks |-> 0, pauses |-> 0]

\* the heuristic has not been called on its own
HeuristicIdle ==
    /\ cues = NoCues
    /\ base_scores = <<>>

\* no details are stored and no report is generated
ReportIdle ==
    /\ analysis_details = [evaluation_method |-> "", correctness |-> <<>>,
                            engagement |-> <<>>, topic_coverage |-> <<>>]
    /\ report = <<>>

\* an agent output without claims and digressions
NoClaims == [form |-> "object", claims |-> <<>>, digressions |-> <<>>, method |-> ""]

\* the agent tier has not been called on its own
ScoringIdle ==
    /\ agent_output = NoClaims
    /\ agent_returned = <<>>

\* no metrics have been generated on their own
MetricsIdle == metric_calls = <<>>

\* no triple is being assembled on its own
AssemblyIdle ==
    /\ assembly_pc = "idle"
    /\ score_components = <<>>
    /\ detailed_analysis = <<>>
    /\ assembled = <<>>

Init ==
    /\ request \in Requests
    /\ FACT_CHECK_AGENT_AVAILABLE \in BOOLEAN
    /\ OPENAI_AVAILABLE \in BOOLEAN
    /\ PipelineIdle
    /\ HeuristicIdle
    /\ ReportIdle
    /\ ScoringIdle
    /\ MetricsIdle
    /\ AssemblyIdle

\* the keyword tier of calculate_correctness_score for the request
keyword_tier ==
    Memo(KeywordOverlaps, <<request.transcript_text, request.source_materials>>,
         analyze_content_correctness_fallback(request.transcript_text,
                                              request.source_materials))

\* the combined content the worker hands to the topic evaluator
worker_content ==
    comprehensive_combined_content(request.transcript_text, request.source_materials,
                                   request.slides_content)

\* the combined content run_fallback_evaluation hands to the topic evaluator
fallback_content ==
    fallback_combined_content(request.transcript_text, request.source_materials,
                              request.slides_content)

\* run_evaluation_sync: executor.submit(run_async_eval), then future.result
Submit ==
    /\ main_pc = "start"
    /\ main_pc' = "waiting"
    /\ worker_pc' = "correctness"
    /\ UNCHANGED <<inputs, heuristic_vars, report_vars, scoring_vars, metrics_vars, assembly_vars, correctness, engagement, topic_coverage, future, result, timed_out>>

\* calculate_correctness_score up to its first LLM call: the agent tier when
\* the agent is loaded and there are source materials, else the direct tier
\* when there is an API key and source materials, else the keyword fallback,
\* which returns at once
CorrectnessBegin ==
    /\ worker_pc = "correctness"
    /\ IF FACT_CHECK_AGENT_AVAILABLE /\ strip(request.source_materials) # <<>>
       THEN worker_pc' = "agent_wait" /\ UNCHANGED correctness
       ELSE IF OPENAI_AVAILABLE /\ strip(request.source_materials) # <<>>
       THEN worker_pc' = "direct_wait" /\ UNCHANGED correctness
       ELSE /\ worker_pc' = "engagement"
            /\ correctness' =
                   <<correctness_result(keyword_tier, request.source_materials, "none")>>
    /\ UNCHANGED <<inputs, heuristic_vars, report_vars, scoring_vars, metrics_vars, assembly_vars, main_pc, engagement, topic_coverage, future, result, timed_out>>

\* the agent's LLM call ends: the agent tier scores it, and only if the
\* agent function raised does the evaluator fall through to the next tier
AgentRespondWith(outcome) ==
    /\ worker_pc = "agent_wait"
    /\ \E analysis \in {analyze_content_correctness_with_agent(
                            FACT_CHECK_AGENT_AVAILABLE, request.source_materials,
                            FactCheckAgent_run(outcome))} :
           IF ~analysis.exc
           THEN /\ worker_pc' = "engagement"
                /\ correctness' =
                       <<correctness_result(analysis, request.source_materials,
                                            llm_kind(outcome))>>
           ELSE IF OPENAI_AVAILABLE
           THEN worker_pc' = "direct_wait" /\ UNCHANGED correctness
           ELSE /\ worker_pc' = "engagement"
                /\ correctness' =
                       <<correctness_result(keyword_tier, request.source_materials,
                                            llm_kind(outcome))>>
    /\ UNCHANGED <<inputs, heuristic_vars, report_vars, scoring_vars, metrics_vars, assembly_vars, main_pc, engagement, topic_coverage, future, result, timed_out>>

AgentRespond == \E outcome \in FactCheckOutcomes : AgentRespondWith(outcome)

\* the direct tier's LLM call ends within the 30 seconds of future.result
DirectRespond ==
    /\ worker_pc = "direct_wait"
    /\ \E outcome \in FactCheckOutcomes :
         \E analysis \in {analyze_content_correctness_with_openai(
                              OPENAI_AVAILABLE, request.transcript_text,
                              request.source_materials, outcome)} :
             correctness' =
                 <<IF analysis.exc
                   THEN basic_density_fallback(request.transcript_text, request.duration,
                                               llm_kind(outcome))
                   ELSE correctness_result(analysis, request.source_materials,
                                           llm_kind(outcome))>>
    /\ worker_pc' = "engagement"
    /\ UNCHANGED <<inputs, heuristic_vars, report_vars, scoring_vars, metrics_vars, assembly_vars, main_pc, engagement, topic_coverage, future, result, timed_out>>

\* future.result(timeout=30) of the direct tier raises TimeoutError; leaving
\* the with block shuts the inner executor down, which waits for the call
DirectTimeout ==
    /\ worker_pc = "direct_wait"
    /\ worker_pc' = "direct_exit"
    /\ UNCHANGED <<inputs, heuristic_vars, report_vars, scoring_vars, metrics_vars, assembly_vars, main_pc, correctness, engagement, topic_coverage, future, result,
                   timed_out>>

\* the late call ends, the inner executor shuts down, and the TimeoutError
\* reaches the except branch of calculate_correctness_score
DirectExit ==
    /\ worker_pc = "direct_exit"
    /\ worker_pc' = "engagement"
    /\ correctness' =
           <<basic_density_fallback(request.transcript_text, request.duration, "timeout")>>
    /\ UNCHANGED <<inputs, heuristic_vars, report_vars, scoring_vars, metrics_vars, assembly_vars, main_pc, engagement, topic_coverage, future, result, timed_out>>

\* calculate_engagement_score: no LLM call
Engagement ==
    /\ worker_pc = "engagement"
    /\ worker_pc' = "topic"
    /\ engagement' =
           <<Memo(EngagementScores, <<request.transcript_text, request.slides_content>>,
                  calculate_engagement_score(request.transcript_text,
                                             request.slides_content))>>
    /\ UNCHANGED <<inputs, heuristic_vars, report_vars, scoring_vars, metrics_vars, assembly_vars, main_pc, correctness, topic_coverage, future, result, timed_out>>

\* what run_async_eval returns once the topic evaluator has returned or
\* raised
worker_return(topic_details) ==
    IF topic_details.exc
    THEN fallback_analysis_result(request.transcript_text, correctness[1], engagement[1])
    ELSE comprehensive_result(correctness[1], engagement[1], topic_details)

\* calculate_topic_coverage_score up to its LLM call; without topics or
\* without an API key it returns at once and the worker is done
TopicBegin ==
    /\ worker_pc = "topic"
    /\ IF topic_calls_llm(request.topics_covered, OPENAI_AVAILABLE)
       THEN worker_pc' = "topic_wait" /\ UNCHANGED <<topic_coverage, future>>
       ELSE \E topic_details \in
                    {topic_score_without_call(request.topics_covered, worker_content)} :
                /\ worker_pc' = "finished"
                /\ topic_coverage' = <<topic_details>>
                /\ future' = <<worker_return(topic_details)>>
    /\ UNCHANGED <<inputs, heuristic_vars, report_vars, scoring_vars, metrics_vars, assembly_vars, main_pc, correctness, engagement, result, timed_out>>

\* the topic evaluator's LLM call ends and the worker is done
TopicRespond ==
    /\ worker_pc = "topic_wait"
    /\ \E outcome \in TopicOutcomes :
         \E topic_details \in {topic_score_with_call(request.topics_covered, worker_content,
                                                     OPENAI_AVAILABLE, outcome)} :
             /\ topic_coverage' = <<topic_details>>
             /\ future' = <<worker_return(topic_details)>>
    /\ worker_pc' = "finished"
    /\ UNCHANGED <<inputs, heuristic_vars, report_vars, scoring_vars, metrics_vars, assembly_vars, main_pc, correctness, engagement, result, timed_out>>

\* future.result returns what the worker returned
Receive ==
    /\ main_pc = "waiting"
    /\ worker_pc = "finished"
    /\ main_pc' = "returned"
    /\ result' = future
    /\ UNCHANGED <<inputs, heuristic_vars, report_vars, scoring_vars, metrics_vars, assembly_vars, worker_pc, correctness, engagement, topic_coverage, future, timed_out>>

\* future.result(timeout=60) raises TimeoutError while the worker is still
\* running; the exception leaves the with block, whose exit is
\* executor.shutdown(wait=True)
Timeout ==
    /\ main_pc = "waiting"
    /\ worker_pc # "finished"
    /\ main_pc' = "executor_exit"
    /\ timed_out' = TRUE
    /\ UNCHANGED <<inputs, heuristic_vars, report_vars, scoring_vars, metrics_vars, assembly_vars, worker_pc, correctness, engagement, topic_coverage, future, result>>

\* run_fallback_evaluation returns, or raises what its topic evaluation
\* raised
fallback_returns(topic_details) ==
    /\ topic_coverage' = <<topic_details>>
    /\ IF topic_details.exc
       THEN main_pc' = "raised" /\ UNCHANGED result
       ELSE /\ main_pc' = "returned"
            /\ result' = <<run_fallback_evaluation(request.transcript_text, request.duration,
                               request.source_materials, request.slides_content,
                               topic_details)>>

\* the worker has ended, so shutdown returns and the TimeoutError reaches
\* the except branch of run_evaluation_sync, which calls
\* run_fallback_evaluation: it returns at once unless its topic evaluation
\* calls the LLM.  The abandoned evaluation's values are dropped;
\* run_fallback_evaluation scores correctness inline, then calls
\* calculate_engagement_score_sync, then the topic evaluator.
ExecutorExit ==
    /\ main_pc = "executor_exit"
    /\ worker_pc = "finished"
    /\ correctness' = <<>>
    /\ engagement' =
           <<Memo(EngagementSyncScores, <<request.transcript_text, request.slides_content>>,
                  calculate_engagement_score_sync(request.transcript_text,
                                                  request.slides_content))>>
    /\ IF topic_calls_llm(request.topics_covered, OPENAI_AVAILABLE)
       THEN main_pc' = "fallback_topic_wait" /\ topic_coverage' = <<>> /\ UNCHANGED result
       ELSE fallback_returns(topic_score_without_call(request.topics_covered,
                                                      fallback_content))
    /\ future' = <<>>
    /\ UNCHANGED <<inputs, heuristic_vars, report_vars, scoring_vars, metrics_vars, assembly_vars, worker_pc, timed_out>>

\* the LLM call of run_fallback_evaluation's topic evaluation ends
FallbackTopicRespond ==
    /\ main_pc = "fallback_topic_wait"
    /\ \E outcome \in TopicOutcomes :
         fallback_returns(topic_score_with_call(request.topics_covered, fallback_content,
                                                OPENAI_AVAILABLE, outcome))
    /\ UNCHANGED <<inputs, heuristic_vars, report_vars, scoring_vars, metrics_vars, assembly_vars, worker_pc, correctness, engagement, future, timed_out>>

Next ==
    \/ Submit
    \/ CorrectnessBegin
    \/ AgentRespond
    \/ DirectRespond
    \/ DirectTimeout
    \/ DirectExit
    \/ Engagement
    \/ TopicBegin
    \/ TopicRespond
    \/ Receive
    \/ Timeout
    \/ ExecutorExit
    \/ FallbackTopicRespond

Spec == Init /\ [][Next]_vars

-----------------------------------------------------------------------------
(* The engagement heuristic on its own: calculate_engagement_score and     *)
(* calculate_engagement_score_fallback are called on a transcript, a cue   *)
(* is added to the transcript, and they are called again.                  *)

\* the most question cues and question marks a transcript is given
MaxCues == 6

\* the most engagement cues and pause indicators a transcript is given
MaxOtherCues == 2

\* one cue of each kind: a question keyword, an engagement keyword, an
\* explicit question mark and a pause indicator
QuestionCue == <<"a", "s", "k", " ">>
EngagementCue == <<"s", "h", "a", "r", "e", " ">>
QuestionMarkCue == <<"?", " ">>
PauseCue == <<"p", "a", "u", "s", "e", " ">>

\* the transcript with the cues counted in cue_counts
cue_transcript(cue_counts) ==
    repeat(QuestionCue, cue_counts.question) \o repeat(EngagementCue, cue_counts.engagement)
        \o repeat(QuestionMarkCue, cue_counts.marks) \o repeat(PauseCue, cue_counts.pauses)

\* the base score of both heuristics for the transcript, without slides
heuristic_base_scores(cue_counts) ==
    [primary |-> calculate_engagement_score(cue_transcript(cue_counts), <<>>).base_score,
     fallback |->
         calculate_engagement_score_fallback(cue_transcript(cue_counts), <<>>).base_score]

HeuristicInit ==
    /\ request \in {[transcript_text |-> <<>>, topics_covered |-> <<>>, duration |-> <<>>,
                      source_materials |-> <<>>, slides_content |-> <<>>]}
    /\ FACT_CHECK_AGENT_AVAILABLE = FALSE
    /\ OPENAI_AVAILABLE = FALSE
    /\ PipelineIdle
    /\ cues = NoCues
    /\ base_scores = <<heuristic_base_scores(NoCues)>>
    /\ ReportIdle
    /\ ScoringIdle
    /\ MetricsIdle
    /\ AssemblyIdle

\* the heuristics are called on the transcript with the cue counts given
Rescore(cue_counts) ==
    /\ cues' = cue_counts
    /\ base_scores' = <<heuristic_base_scores(cue_counts)>>
    /\ UNCHANGED <<pipeline_vars, report_vars, scoring_vars, metrics_vars, assembly_vars>>

AddQuestionCue ==
    /\ cues.question < MaxCues
    /\ Rescore([cues EXCEPT !.question = @ + 1])

AddEngagementCue ==
    /\ cues.engagement < MaxOtherCues
    /\ Rescore([cues EXCEPT !.engagement = @ + 1])

AddQuestionMark ==
    /\ cues.marks < MaxCues
    /\ Rescore([cues EXCEPT !.marks = @ + 1])

AddPause ==
    /\ cues.pauses < MaxOtherCues
    /\ Rescore([cues EXCEPT !.pauses = @ + 1])

HeuristicNext ==
    \/ AddQuestionCue
    \/ AddEngagementCue
    \/ AddQuestionMark
    \/ AddPause

HeuristicSpec == HeuristicInit /\ [][HeuristicNext]_vars

-----------------------------------------------------------------------------
(* The agent tier on its own: analyze_content_correctness_with_agent is    *)
(* called for an agent output, the output gains a claim or a digression,   *)
(* and it is called again.                                                 *)

\* the most claims an agent output grows to
MaxScoredClaims == 3

\* the most digressions an agent output grows to
MaxScoredDigressions == 3

AgentScoringInit ==
    /\ request \in {[transcript_text |-> PhraseContent, topics_covered |-> <<>>,
                      duration |-> <<>>, source_materials |-> SourceText,
                      slides_content |-> <<>>]}
    /\ FACT_CHECK_AGENT_AVAILABLE = TRUE
    /\ OPENAI_AVAILABLE = FALSE
    /\ PipelineIdle
    /\ HeuristicIdle
    /\ ReportIdle
    /\ MetricsIdle
    /\ AssemblyIdle
    /\ agent_output = NoClaims
    /\ agent_returned =
           <<analyze_content_correctness_with_agent(TRUE, SourceText, NoClaims)>>

\* analyze_content_correctness_with_agent is called and the agent answers
\* with the output given
ScoreOutput(final_output) ==
    /\ agent_output' = final_output
    /\ agent_returned' =
           <<analyze_content_correctness_with_agent(
                 FACT_CHECK_AGENT_AVAILABLE, request.source_materials, final_output)>>
    /\ UNCHANGED <<pipeline_vars, heuristic_vars, report_vars, metrics_vars, assembly_vars>>

\* the output lists one more claim: a judged one, or an entry that is not an
\* object
ClaimJudged ==
    /\ Len(agent_output.claims) < MaxScoredClaims
    /\ \E judgment \in Judgments \cup {NonDict} :
           ScoreOutput([agent_output EXCEPT !.claims = Append(@, judgment)])

\* the output lists one more digression
DigressionFound ==
    /\ Len(agent_output.digressions) < MaxScoredDigressions
    /\ \E severity \in Severities \cup {NonDict} :
           ScoreOutput([agent_output EXCEPT !.digressions = Append(@, severity)])

AgentScoringNext ==
    \/ ClaimJudged
    \/ DigressionFound

AgentScoringSpec == AgentScoringInit /\ [][AgentScoringNext]_vars

-----------------------------------------------------------------------------
(* The engagement metrics on their own: generate_realistic_engagement_     *)
(* metrics is called for one transcript with the score 0, then with the    *)
(* score half a point higher, up to 35.                                    *)

\* a transcript with thirteen question marks, which make ten questions
TranscriptQuestions ==
    <<"l", "e", "c", "t", "u", "r", "e", " ", "w", "o", "r", "d", "s", " ",
      "h", "e", "r", "e", " ">> \o repeat(<<"?", " ">>, 13)

MetricsInit ==
    /\ request \in {[transcript_text |-> transcript, topics_covered |-> <<>>,
                      duration |-> <<>>, source_materials |-> <<>>,
                      slides_content |-> <<>>] :
                        transcript \in Transcripts \cup {TranscriptQuestions}}
    /\ FACT_CHECK_AGENT_AVAILABLE = FALSE
    /\ OPENAI_AVAILABLE = FALSE
    /\ PipelineIdle
    /\ HeuristicIdle
    /\ ReportIdle
    /\ ScoringIdle
    /\ AssemblyIdle
    /\ metric_calls = <<>>

\* the score of the next call
next_score ==
    IF metric_calls = <<>> THEN R(0)
    ELSE RAdd(metric_calls[Len(metric_calls)].base_score, Rat(1, 2))

\* generate_realistic_engagement_metrics is called with the next score
GenerateMetrics ==
    /\ RLeq(next_score, R(35))
    /\ metric_calls' =
           Append(metric_calls,
                  [base_score |-> next_score,
                   metrics |-> generate_realistic_engagement_metrics(
                                   request.transcript_text, next_score)])
    /\ UNCHANGED <<pipeline_vars, heuristic_vars, report_vars, scoring_vars, assembly_vars>>

MetricsNext == GenerateMetrics

MetricsSpec == MetricsInit /\ [][MetricsNext]_vars

-----------------------------------------------------------------------------
(* The triple on its own (src/model/lecture_evaluator.py): the two         *)
(* functions that build one, calculate_comprehensive_lecture_score and     *)
(* run_fallback_evaluation, run on a request without AI, assignment by     *)
(* assignment.  A dict is a function from its keys; the                    *)
(* evaluation_timestamp entry, a clock reading, is left out.               *)

\* d[key] = value
dict_set(d, key, value) == (key :> value) @@ d

RECURSIVE sum_of_values(_, _)
sum_of_values(d, keys) ==
    IF keys = {} THEN R(0)
    ELSE RAdd(d[CHOOSE key \in keys : TRUE],
              sum_of_values(d, keys \ {CHOOSE key \in keys : TRUE}))

\* sum(d.values())
dict_sum(d) == sum_of_values(d, DOMAIN d)

\* the last two assignments of either function and its return value
returned_triple(components, analysis) ==
    [total_score |-> dict_sum(components),
     components |-> components,
     analysis_details |->
         dict_set(dict_set(analysis, "total_score", dict_sum(components)),
                  "score_components", components)]

\* the except branch without the default Topic Coverage score
except_components_untopiced(components_so_far, transcript) ==
    dict_set(dict_set(components_so_far,
                      "Correctness", RMin(Rat(Len(split(transcript)), 200), R(30))),
             "Engagement", RMin(Rat(count(transcript, QUESTION_MARK) * 25, 10), R(20)))

\* the three assignments of the except branch, made on the dict as the try
\* body left it
except_components(components_so_far, transcript) ==
    dict_set(dict_set(dict_set(components_so_far,
                               "Correctness",
                               RMin(Rat(Len(split(transcript)), 200), R(30))),
                      "Engagement",
                      RMin(Rat(count(transcript, QUESTION_MARK) * 25, 10), R(20))),
             "Topic Coverage", R(20))

AssemblyInit ==
    /\ request \in Requests
    /\ FACT_CHECK_AGENT_AVAILABLE = FALSE
    /\ OPENAI_AVAILABLE = FALSE
    /\ PipelineIdle
    /\ HeuristicIdle
    /\ ReportIdle
    /\ ScoringIdle
    /\ MetricsIdle
    /\ AssemblyIdle

\* calculate_comprehensive_lecture_score is called: the two dicts are made
CallComprehensive ==
    /\ assembly_pc = "idle"
    /\ assembly_pc' = "correctness"
    /\ score_components' = <<>>
    /\ detailed_analysis' = dict_set(<<>>, "evaluation_method", "comprehensive_ai_analysis")
    /\ UNCHANGED <<pipeline_vars, heuristic_vars, report_vars, scoring_vars, metrics_vars,
                   assembled>>

\* an evaluator returns and its two assignments are made, or it raises and
\* control passes to the except branch
evaluator_step(component, rescaled, entry, details, next_pc) ==
    \/ /\ score_components' = dict_set(score_components, component, rescaled)
       /\ detailed_analysis' = dict_set(detailed_analysis, entry, details)
       /\ assembly_pc' = next_pc
    \/ /\ assembly_pc' = "except"
       /\ UNCHANGED <<score_components, detailed_analysis>>

\* 1. Correctness
AssembleCorrectness ==
    /\ assembly_pc = "correctness"
    /\ \E details \in {correctness_result(keyword_tier, request.source_materials, "none")} :
           evaluator_step("Correctness", RMin(RMul(details.score, Rat(75, 100)), R(40)),
                          "correctness", details, "engagement")
    /\ UNCHANGED <<pipeline_vars, heuristic_vars, report_vars, scoring_vars, metrics_vars,
                   assembled>>

\* 2. Engagement
AssembleEngagement ==
    /\ assembly_pc = "engagement"
    /\ \E details \in {Memo(EngagementScores,
                             <<request.transcript_text, request.slides_content>>,
                             calculate_engagement_score(request.transcript_text,
                                                        request.slides_content))} :
           evaluator_step("Engagement", RMin(RMul(details.score, Rat(571, 1000)), R(30)),
                          "engagement", details, "topic")
    /\ UNCHANGED <<pipeline_vars, heuristic_vars, report_vars, scoring_vars, metrics_vars,
                   assembled>>

\* 3. Topic Coverage
AssembleTopic ==
    /\ assembly_pc = "topic"
    /\ \E details \in {topic_score_without_call(request.topics_covered, worker_content)} :
           evaluator_step("Topic Coverage", RMin(RMul(details.score, R(3)), R(30)),
                          "topic_coverage", details, "total")
    /\ UNCHANGED <<pipeline_vars, heuristic_vars, report_vars, scoring_vars, metrics_vars,
                   assembled>>

\* the end of the try body: the total, its two entries, the return
AssembleTotal ==
    /\ assembly_pc = "total"
    /\ assembly_pc' = "returned"
    /\ assembled' = <<returned_triple(score_components, detailed_analysis)>>
    /\ detailed_analysis' = assembled'[1].analysis_details
    /\ UNCHANGED <<pipeline_vars, heuristic_vars, report_vars, scoring_vars, metrics_vars,
                   score_components>>

\* the except branch
AssembleExcept ==
    /\ assembly_pc = "except"
    /\ assembly_pc' = "returned"
    /\ score_components' = except_components(score_components, request.transcript_text)
    /\ assembled' =
           <<returned_triple(score_components',
                             dict_set(dict_set(detailed_analysis, "error", "Exception"),
                                      "evaluation_method", "fallback_analysis"))>>
    /\ detailed_analysis' = assembled'[1].analysis_details
    /\ UNCHANGED <<pipeline_vars, heuristic_vars, report_vars, scoring_vars, metrics_vars>>

\* the components of run_fallback_evaluation, in the order it assigns them
fallback_components(transcript, duration, source, slides, topic_details) ==
    dict_set(dict_set(dict_set(<<>>,
                               "Correctness",
                               RMul(Memo(FallbackCorrectnessRatios,
                                         <<transcript, duration, source>>,
                                         fallback_correctness_ratio(transcript, duration,
                                                                    source)),
                                    R(30))),
                      "Engagement",
                      RMin(RMul(Memo(EngagementSyncScores, <<transcript, slides>>,
                                     calculate_engagement_score_sync(transcript,
                                                                     slides)).score,
                                Rat(571, 1000)),
                           R(20))),
             "Topic Coverage", RMin(RMul(topic_details.score, R(3)), R(30)))

\* the details of run_fallback_evaluation before the total is stored
fallback_analysis(transcript, duration, source, slides, topic_details) ==
    dict_set(dict_set(dict_set(dict_set(<<>>, "evaluation_method", "fallback_synchronous"),
                               "correctness",
                               [method |-> "fallback_keyword_overlap",
                                correctness_ratio |->
                                    Memo(FallbackCorrectnessRatios,
                                         <<transcript, duration, source>>,
                                         fallback_correctness_ratio(transcript, duration,
                                                                    source)),
                                word_count |-> Len(split(transcript))]),
                      "engagement",
                      Memo(EngagementSyncScores, <<transcript, slides>>,
                           calculate_engagement_score_sync(transcript, slides))),
             "topic_coverage", topic_details)

\* run_fallback_evaluation is called and returns: it has no except branch
\* and, without AI, nothing to wait for
CallFallback ==
    /\ assembly_pc = "idle"
    /\ assembly_pc' = "returned"
    /\ \E topic_details \in
             {topic_score_without_call(request.topics_covered, fallback_content)} :
           /\ score_components' =
                  fallback_components(request.transcript_text, request.duration,
                                      request.source_materials, request.slides_content,
                                      topic_details)
           /\ assembled' =
                  <<returned_triple(score_components',
                                    fallback_analysis(request.transcript_text,
                                                      request.duration,
                                                      request.source_materials,
                                                      request.slides_content,
                                                      topic_details))>>
    /\ detailed_analysis' = assembled'[1].analysis_details
    /\ UNCHANGED <<pipeline_vars, heuristic_vars, report_vars, scoring_vars, metrics_vars>>

AssemblyNext ==
    \/ CallComprehensive
    \/ AssembleCorrectness
    \/ AssembleEngagement
    \/ AssembleTopic
    \/ AssembleTotal
    \/ AssembleExcept
    \/ CallFallback

AssemblySpec == AssemblyInit /\ [][AssemblyNext]_vars

-----------------------------------------------------------------------------
(* The report (generate_comprehensive_evaluation_report of                 *)
(* src/model/lecture_evaluator.py), called on the analysis details the     *)
(* evaluators return.  A dict of details is kept by what the report reads  *)
(* of it: its top-level keys and the entries under the keys it looks up.   *)
(*   correctness   [keys, method, correctness_ratio, claims, fact_checks]  *)
(*   engagement    [keys, student_talk_ratio, turns_per_10min,             *)
(*                  question_distribution, reconstructed_questions]        *)
(*   topic         [keys, topic_analysis, uncovered_topics, average_depth, *)
(*                  shallow_topics]                                        *)
(* claims is the judgment of each entry of 'claims'; fact_checks the       *)
(* entries of agent_analysis.full_analysis.fact_checks, each with what the *)
(* report reads of it: whether it is an object, its verdict, its claim and *)
(* its explanation (<<>> when absent); uncovered_topics the list under     *)
(* topics_analysis; shallow_topics the topics whose depth under            *)
(* depth_analysis.topic_depths is below 2; an entry that is absent reads   *)
(* as the default the report gives to .get.                                *)
(*                                                                         *)
(* The AI tiers return the parsed completion itself with their own entries *)
(* added, so the details have whatever keys the completion has.  A parsed  *)
(* completion of the fact-checking prompt is [text, keys, fact_checks,     *)
(* correctness_ratio, ill_typed]: the text as above, the top-level keys of *)
(* the object, the fact checks under agent_analysis.full_analysis when it  *)
(* has that key, its own entry correctness_ratio, and the entries whose    *)
(* value has a type the report cannot use.  A parsed completion of         *)
(* the topic prompt is [keys, topic_analysis, uncovered_topics,            *)
(* average_depth, shallow_topics, ill_typed].  The report raises on an     *)
(* ill-typed entry it reads, and then no report is returned.               *)

\* an entry of fact_checks that is an object: its verdict, and its claim
\* and explanation when it has them
fact_check(verdict, claim, explanation) ==
    [object |-> TRUE, verdict |-> verdict, claim |-> claim, explanation |-> explanation]

\* an entry of fact_checks that is not an object
NonDictFactCheck == [object |-> FALSE, verdict |-> "", claim |-> <<>>, explanation |-> <<>>]

\* the entries of fact_checks whose verdict lies in a set, in order
with_verdict(fact_checks, verdicts) ==
    SelectSeq(fact_checks, LAMBDA fc : fc.object /\ fc.verdict \in verdicts)

\* a value that is not a string where the report needs one
NotAString == <<"<not a string>">>

\* the 'claim' entry of every entry of 'claims' in a completion
ClaimStatement ==
    <<"D", "N", "A", " ", "i", "s", " ", "a", " ", "p", "r", "o", "t", "e", "i", "n">>

\* the claim of a fact check about another statement
OtherStatement == <<"R", "N", "A", " ", "i", "s", " ", "a", " ", "l", "i", "p", "i", "d">>

\* a claim of 120 characters
LongStatement == repeat(<<"d", "n", "a", " ">>, 30)

\* an explanation a fact check gives
Explanation == <<"P", "r", "o", "t", "e", "i", "n", "s", " ", "d", "i", "f", "f", "e", "r">>

\* the characters of a claim a "Factual concern" entry quotes
ClaimExcerptLength == 100

\* the details a tier builds itself
correctness_details(keys, method, correctness_ratio, claims) ==
    [keys |-> keys, method |-> method, correctness_ratio |-> correctness_ratio,
     claims |-> claims, fact_checks |-> <<>>, ill_typed |-> {}]

\* the keys of the schema of the fact-checking prompts
SchemaKeys == {"summary", "claims", "digressions"}

\* the keys an object has when its entries read as the text says
required_keys(text) ==
    (IF text.claims # <<>> THEN {"claims"} ELSE {})
    \cup (IF text.digressions # <<>> THEN {"digressions"} ELSE {})
    \cup (IF text.method # "" THEN {"method"} ELSE {})

\* the lists a completion carries under
\* agent_analysis.full_analysis.fact_checks: one fact check about the
\* statement of the claims (flagged, explained or found correct), one about
\* another statement, one without a claim, three flagged ones of which the
\* third has a claim that is not a string, three unsupported ones, one
\* flagged or found correct whose claim is not a string, and an entry that
\* is not an object
FactCheckLists ==
    {<<fact_check("INCORRECT", <<ClaimStatement>>, <<>>)>>,
     <<fact_check("INCORRECT", <<ClaimStatement>>, <<Explanation>>)>>,
     <<fact_check("CORRECT", <<ClaimStatement>>, <<>>)>>,
     <<fact_check("QUESTIONABLE", <<OtherStatement>>, <<>>)>>,
     <<fact_check("INCORRECT", <<>>, <<>>)>>,
     <<fact_check("INCORRECT", <<ClaimStatement>>, <<>>),
       fact_check("QUESTIONABLE", <<LongStatement>>, <<>>),
       fact_check("INCORRECT", <<NotAString>>, <<>>)>>,
     <<fact_check("UNSUPPORTED", <<ClaimStatement>>, <<>>),
       fact_check("UNSUPPORTED", <<NotAString>>, <<>>),
       fact_check("UNSUPPORTED", <<>>, <<>>)>>,
     <<fact_check("INCORRECT", <<NotAString>>, <<>>)>>,
     <<fact_check("CORRECT", <<NotAString>>, <<>>)>>,
     <<NonDictFactCheck>>}

\* the entries on the way to the fact checks that can hold a value of
\* another type: agent_analysis or full_analysis that is not an object,
\* fact_checks that is not a list (a number, null, a non-empty string or
\* object)
FactCheckPath == {"agent_analysis", "full_analysis", "fact_checks"}

\* a parsed completion: the text, the top-level keys, the fact checks, the
\* entry correctness_ratio (0 without one), and the entries whose value has
\* a type the report cannot use
parsed_completion(text, keys, fact_checks, correctness_ratio, ill_typed) ==
    [text |-> text, keys |-> keys, fact_checks |-> fact_checks,
     correctness_ratio |-> correctness_ratio, ill_typed |-> ill_typed]

\* the error object FactCheckAgent.run returns
agent_error_object(text) == parsed_completion(text, {"error", "method"}, <<>>, R(0), {})

\* the structure the agent tier puts in the place of an output it cannot
\* parse
unparsed_structure(text) == parsed_completion(text, SchemaKeys, <<>>, R(0), {})

\* the text with an entry method of its own
with_method(text, method) == [text EXCEPT !.method = method]

\* the objects a text of the LLM stands for: with the keys its entries need
\* and no other; with every key of the schema; with the extra key
\* agent_analysis, holding fact checks or, on the way to them, a value of
\* another type; and with a method entry 'fallback_keyword_overlap' of its
\* own, alone or with a correctness_ratio that is a number (above or below
\* 0.3, or nan) or no number
ParsedCompletions(text) ==
    {parsed_completion(text, required_keys(text) \cup more, <<>>, R(0), {}) :
        more \in {{}, SchemaKeys}}
    \cup {parsed_completion(text, required_keys(text) \cup SchemaKeys \cup {"agent_analysis"},
                            fact_checks, R(0), {}) : fact_checks \in FactCheckLists}
    \cup {parsed_completion(text, required_keys(text) \cup SchemaKeys \cup {"agent_analysis"},
                            <<>>, R(0), {entry}) : entry \in FactCheckPath}
    \cup {parsed_completion(with_method(text, "fallback_keyword_overlap"),
                            required_keys(text) \cup {"method"}, <<>>, R(0), {})}
    \cup {parsed_completion(with_method(text, "fallback_keyword_overlap"),
                            required_keys(text) \cup {"method", "correctness_ratio"},
                            <<>>, ratio, {}) : ratio \in {Rat(9, 10), Rat(1, 10), NaN}}
    \cup {parsed_completion(with_method(text, "fallback_keyword_overlap"),
                            required_keys(text) \cup {"method", "correctness_ratio"},
                            <<>>, R(0), {"correctness_ratio"})}

\* the top-level keys of a parsed completion of the fact-checking prompt
completion_keys(fact_check_data) == fact_check_data.keys

\* the keys calculate_correctness_score adds to the details of a tier
score_keys == {"material_bonus", "final_score_out_of_40"}

\* the details that are the parsed completion itself with entries added:
\* its own entries stay
completion_details(fact_check_data, added_keys, method) ==
    [keys |-> completion_keys(fact_check_data) \cup added_keys \cup score_keys,
     method |-> method,
     correctness_ratio |-> fact_check_data.correctness_ratio,
     claims |-> fact_check_data.text.claims,
     fact_checks |-> fact_check_data.fact_checks,
     ill_typed |-> fact_check_data.ill_typed]

\* the details of the agent tier for a parsed output
agent_tier_details(fact_check_data) ==
    IF agent_analysis(fact_check_data.text).method = "fact_check_agent_fallback"
    THEN correctness_details({"error", "method"} \cup score_keys,
                             "fact_check_agent_fallback", R(0), <<>>)
    ELSE IF Len(fact_check_data.text.claims) = 0
    THEN completion_details(fact_check_data, {"method"}, "fact_check_agent")
    ELSE completion_details(fact_check_data, {"method", "scoring_details"},
                            "fact_check_agent")

\* the parsed outputs the agent tier can have for an outcome of the agent's
\* call
agent_completions(outcome) ==
    IF outcome.raised THEN {agent_error_object(FactCheckAgent_run(outcome))}
    ELSE IF outcome.text.form = "prose" THEN {unparsed_structure(agent_parse(outcome.text))}
    ELSE ParsedCompletions(agent_parse(outcome.text))

\* the details of the direct tier for a completion it scores
direct_tier_details(fact_check_data) ==
    IF Len(fact_check_data.text.claims) = 0
    THEN completion_details(fact_check_data, {}, fact_check_data.text.method)
    ELSE completion_details(fact_check_data, {"method", "scoring_details"},
                            "openai_enhanced")

\* the details of analyze_content_correctness_fallback
keyword_tier_details(source_materials) ==
    IF strip(source_materials) = <<>>
    THEN correctness_details({"note", "method", "final_score_out_of_40"}, "fallback",
                             R(0), <<>>)
    ELSE correctness_details({"method", "similarity_ratio", "transcript_words",
                              "source_words", "overlapping_words"} \cup score_keys,
                             "keyword_overlap_fallback", R(0), <<>>)

\* the details of the except branch of calculate_correctness_score
density_details ==
    correctness_details({"method", "content_density", "word_count", "error",
                         "final_score_out_of_40"},
                        "basic_density_fallback", R(0), <<>>)

\* the correctness details of run_fallback_evaluation
fallback_run_details(correctness_ratio) ==
    correctness_details({"method", "correctness_ratio", "word_count"},
                        "fallback_keyword_overlap", correctness_ratio, <<>>)

\* the details both engagement heuristics return
heuristic_details(keys) ==
    [keys |-> keys, student_talk_ratio |-> R(0), turns_per_10min |-> R(0),
     question_distribution |-> <<>>, reconstructed_questions |-> 0]

topic_details_of(keys, topic_analysis) ==
    [keys |-> keys, topic_analysis |-> topic_analysis, uncovered_topics |-> <<>>,
     average_depth |-> R(0), shallow_topics |-> <<>>, ill_typed |-> {}]

\* the keys of an analysis in the format of the topic prompt, with the
\* entries calculate_topic_coverage_score adds
topic_analysis_keys ==
    {"overall_analysis", "topic_analysis", "additional_insights", "analysis_method",
     "scoring_details", "final_score_out_of_10"}

\* the details of the deterministic fallback tier
fallback_tier_topic_details(topics_list, combined_content) ==
    topic_details_of(topic_analysis_keys,
                     SubSeq([i \in 1..Len(topics_list) |->
                                fallback_topic_entry(topics_list[i], combined_content)],
                            1, Len(topics_list)))

\* the coverage_status values the topic prompt asks for
CoverageStatuses == {"well_covered", "partially_covered", "mentioned", "not_covered"}

\* the keys of the schema of the topic prompt
PromptKeys == {"overall_analysis", "topic_analysis", "additional_insights"}

\* a topic_analysis list with one entry for each of the topics given
status_entries(topics_list, statuses) ==
    SubSeq([i \in 1..Len(topics_list) |->
               [topic |-> topics_list[i], coverage_status |-> statuses[i]]],
           1, Len(topics_list))

\* a parsed completion of the topic prompt: its keys, the topic_analysis
\* list, the entries the report reads under topics_analysis and
\* depth_analysis, and the entries whose value has a type the report cannot
\* use
topic_completion(keys, topic_analysis, uncovered_topics, average_depth, shallow_topics,
                 ill_typed) ==
    [keys |-> keys, topic_analysis |-> topic_analysis,
     uncovered_topics |-> uncovered_topics, average_depth |-> average_depth,
     shallow_topics |-> shallow_topics, ill_typed |-> ill_typed]

\* every topic with the status given
all_with_status(topics_list, status) ==
    status_entries(topics_list, [i \in 1..Len(topics_list) |-> status])

\* the keys of a completion that has topics_analysis and depth_analysis
DepthKeys == PromptKeys \cup {"topics_analysis", "depth_analysis"}

\* the objects a completion of the topic prompt can be: in the format of the
\* prompt with a status for every topic, for the first topic only (one of
\* the four statuses or another word), with fewer keys, with the extra keys
\* topics_analysis and depth_analysis (an average depth below or above 2),
\* and with an entry under those keys of another type: topics_analysis or
\* depth_analysis that is not an object, uncovered_topics that is a number,
\* true or a non-empty object, a topic that is not a string (among the
\* first three or after them), an average_depth that is no number, and
\* topic_depths that is not an object or holds a depth that is no number
TopicCompletions(topics_list) ==
    {topic_completion(PromptKeys, status_entries(topics_list, statuses), <<>>, R(0), <<>>,
                      {}) :
        statuses \in [1..Len(topics_list) -> CoverageStatuses]}
    \cup {topic_completion(PromptKeys, status_entries(<<topics_list[1]>>, <<status>>),
                           <<>>, R(0), <<>>, {}) :
            status \in {"not_covered", "unknown"}}
    \cup {topic_completion(keys, <<>>, <<>>, R(0), <<>>, {}) :
            keys \in {{}, {"overall_analysis"}}}
    \cup {topic_completion(PromptKeys \cup {"topics_analysis"},
                           all_with_status(topics_list, "not_covered"),
                           uncovered, R(0), <<>>, {}) :
            uncovered \in {<<>>, topics_list}}
    \cup {topic_completion(PromptKeys \cup {"topics_analysis", "depth_analysis"},
                           all_with_status(topics_list, "mentioned"),
                           <<>>, R(1), <<topics_list[1]>>, {})}
    \cup {topic_completion(PromptKeys \cup {"topics_analysis"}, <<>>, <<>>, R(0), <<>>,
                           {"topics_analysis"})}
    \cup {topic_completion(PromptKeys \cup {"topics_analysis"}, <<>>, <<NotAString>>, R(0),
                           <<>>, {})}
    \cup {topic_completion({"overall_analysis", "topics_analysis", "depth_analysis"},
                           <<>>, <<>>, R(0), <<>>, {"depth_analysis"})}
    \cup {topic_completion(DepthKeys, all_with_status(topics_list, "mentioned"),
                           <<>>, R(3), <<topics_list[1]>>, {})}
    \cup {topic_completion(PromptKeys \cup {"topics_analysis"}, <<>>, <<>>, R(0), <<>>,
                           {"uncovered_topics"})}
    \cup {topic_completion(PromptKeys \cup {"topics_analysis"}, <<>>,
                           <<topics_list[1], topics_list[1], topics_list[1], NotAString>>,
                           R(0), <<>>, {})}
    \cup {topic_completion(DepthKeys, <<>>, <<>>, R(0), <<>>, {"average_depth"})}
    \cup {topic_completion(DepthKeys, <<>>, <<>>, average_depth, <<>>, {"topic_depths"}) :
            average_depth \in {R(1), R(3)}}

\* the details of the AI tier: the parsed completion with the entries
\* analyze_topic_coverage_with_openai and calculate_topic_coverage_score add
ai_tier_topic_details(completion) ==
    [completion EXCEPT !.keys = @ \cup {"analysis_method", "scoring_details",
                                        "final_score_out_of_10"}]

\* the details of calculate_topic_coverage_score without topics
no_topics_details ==
    topic_details_of({"message", "final_score_out_of_10", "analysis_method"}, <<>>)

Recommendation(kind, about) == [kind |-> kind, about |-> about]

\* claim.get('claim', 'Unknown claim')[:100] + "..."
claim_excerpt(claim) ==
    take(IF claim = <<>>
         THEN <<"U", "n", "k", "n", "o", "w", "n", " ", "c", "l", "a", "i", "m">>
         ELSE claim[1],
         ClaimExcerptLength)
    \o <<".", ".", ".">>

\* claim.get('explanation', 'Verify accuracy')
claim_explanation(explanation) ==
    IF explanation = <<>>
    THEN <<"V", "e", "r", "i", "f", "y", " ", "a", "c", "c", "u", "r", "a", "c", "y">>
    ELSE explanation[1]

\* one "Factual concern" entry for each of the fact checks given: the
\* excerpt of its claim and its explanation
factual_concerns(incorrect_claims) ==
    SubSeq([i \in 1..Len(incorrect_claims) |->
               Recommendation("factual_concern",
                              <<claim_excerpt(incorrect_claims[i].claim),
                                claim_explanation(incorrect_claims[i].explanation)>>)],
           1, Len(incorrect_claims))

\* the fact checks the report shows: the first two with a flagged verdict
shown_fact_checks(fact_checks) ==
    take(with_verdict(fact_checks, {"INCORRECT", "QUESTIONABLE"}), 2)

\* "Fact-checking recommendations with evidence"
correctness_recommendations(details) ==
    IF "agent_analysis" \in details.keys
    THEN factual_concerns(shown_fact_checks(details.fact_checks))
         \o (IF Len(with_verdict(details.fact_checks, {"UNSUPPORTED"})) > 2
             THEN <<Recommendation("needs_evidence",
                                   <<Len(with_verdict(details.fact_checks,
                                                      {"UNSUPPORTED"}))>>)>>
             ELSE <<>>)
    ELSE IF details.method = "fallback_keyword_overlap"
            /\ RLt(IF "correctness_ratio" \in details.keys THEN details.correctness_ratio
                   ELSE R(0),
                   Rat(3, 10))
    THEN <<Recommendation("low_alignment", <<>>)>>
    ELSE <<>>

\* the correctness section raises: agent_analysis, full_analysis or one of
\* the fact checks has no .get, fact_checks cannot be iterated, the claim
\* of a fact check it shows is not a string, or the ratio it compares is no
\* number
correctness_section_raises(details) ==
    IF "agent_analysis" \in details.keys
    THEN \/ details.ill_typed \cap FactCheckPath # {}
         \/ \E i \in 1..Len(details.fact_checks) : ~details.fact_checks[i].object
         \/ \E i \in 1..Len(shown_fact_checks(details.fact_checks)) :
                shown_fact_checks(details.fact_checks)[i].claim = <<NotAString>>
    ELSE /\ details.method = "fallback_keyword_overlap"
         /\ "correctness_ratio" \in details.keys
         /\ "correctness_ratio" \in details.ill_typed

\* the sum of a list of integers
RECURSIVE sum_of(_)
sum_of(seq) == IF Len(seq) = 0 THEN 0 ELSE Head(seq) + sum_of(Tail(seq))

\* "AI-driven engagement recommendations with specific evidence"
engagement_recommendations(details) ==
    IF "agent_analysis" \in details.keys
    THEN (IF RLt(details.student_talk_ratio, R(10))
          THEN <<Recommendation("low_participation", <<>>)>>
          ELSE IF RLt(R(25), details.student_talk_ratio)
          THEN <<Recommendation("high_talk_ratio", <<>>)>>
          ELSE <<>>)
         \o (IF RLt(details.turns_per_10min, R(2))
             THEN <<Recommendation("few_interactions", <<>>)>> ELSE <<>>)
         \o (IF details.question_distribution # <<>>
                /\ sum_of(details.question_distribution) < 3
             THEN <<Recommendation("limited_questioning", <<>>)>> ELSE <<>>)
    ELSE IF "reconstructed_questions" \in details.keys
            /\ details.reconstructed_questions > 0
    THEN <<Recommendation("potential_questions", <<>>)>>
    ELSE <<>>

\* "Topic coverage recommendations with specifics"
topic_recommendations(details) ==
    IF "topics_analysis" \in details.keys
    THEN (IF details.uncovered_topics # <<>>
          THEN <<Recommendation("missing_topics", take(details.uncovered_topics, 3))>>
          ELSE <<>>)
         \o (IF RLt(details.average_depth, R(2)) /\ details.shallow_topics # <<>>
             THEN <<Recommendation("deeper_coverage", take(details.shallow_topics, 2))>>
             ELSE <<>>)
    ELSE <<>>

\* the topic section raises: topics_analysis or depth_analysis has no .get,
\* uncovered_topics cannot be sliced, one of the topics it joins is not a
\* string, average_depth cannot be compared with 2.0, or, with an average
\* below 2, topic_depths has no .items or holds a depth that cannot be
\* compared
topic_section_raises(details) ==
    /\ "topics_analysis" \in details.keys
    /\ \/ "topics_analysis" \in details.ill_typed
       \/ "uncovered_topics" \in details.ill_typed
       \/ \E i \in 1..Len(take(details.uncovered_topics, 3)) :
              details.uncovered_topics[i] = NotAString
       \/ "depth_analysis" \in details.ill_typed
       \/ "average_depth" \in details.ill_typed
       \/ /\ RLt(details.average_depth, R(2))
          /\ "topic_depths" \in details.ill_typed

\* "Overall performance recommendations": an if on score >= 85, then the
\* if/elif/else chain
closing_recommendations(score) ==
    (IF RLeq(R(85), score) THEN <<Recommendation("excellent", <<>>)>> ELSE <<>>)
    \o (IF RLeq(R(85), score) THEN <<Recommendation("excellent", <<>>)>>
        ELSE IF RLeq(R(70), score) THEN <<Recommendation("good", <<>>)>>
        ELSE <<Recommendation("needs_improvement", <<>>)>>)

\* the grade with each threshold excluded from its band
grade_exclusive(score) ==
    IF RLt(R(85), score) THEN "A"
    ELSE IF RLt(R(75), score) THEN "B"
    ELSE IF RLt(R(65), score) THEN "C"
    ELSE IF RLt(R(55), score) THEN "D"
    ELSE "F"

\* the 'grade' entry of the report
grade(score) ==
    IF RLeq(R(85), score) THEN "A"
    ELSE IF RLeq(R(75), score) THEN "B"
    ELSE IF RLeq(R(65), score) THEN "C"
    ELSE IF RLeq(R(55), score) THEN "D"
    ELSE "F"

\* the call raises instead of returning a report
ReportRaised == [raised |-> TRUE]

\* generate_comprehensive_evaluation_report
generate_comprehensive_evaluation_report(score, details) ==
    IF \/ details.correctness # <<>> /\ correctness_section_raises(details.correctness[1])
       \/ details.topic_coverage # <<>> /\ topic_section_raises(details.topic_coverage[1])
    THEN ReportRaised
    ELSE [raised |-> FALSE,
          overall_score |-> score,
          grade |-> grade(score),
          analysis_details |-> details,
          recommendations |->
              (IF details.correctness = <<>> THEN <<>>
               ELSE correctness_recommendations(details.correctness[1]))
              \o (IF details.engagement = <<>> THEN <<>>
                  ELSE engagement_recommendations(details.engagement[1]))
              \o (IF details.topic_coverage = <<>> THEN <<>>
                  ELSE topic_recommendations(details.topic_coverage[1]))
              \o closing_recommendations(score)]

\* a report was returned
report_built == report # <<>> /\ ~report[1].raised

\* the total scores a report is asked for: each threshold, the score below
\* it, the ends of the scale, and the totals outside the scale the
\* orchestrator returns for a topic score that is negative or nan
ReportScores ==
    {R(0), R(54), R(55), R(64), R(65), R(69), R(70), R(74), R(75), R(84), Rat(169, 2),
     R(85), R(100), R(-12), NaN}

\* a transcript that names one topic ten times
TranscriptDense == repeat(<<"d", "n", "a", " ">>, 10)

ReportRequests ==
    [transcript_text : {PhraseContent, TranscriptDense}, topics_covered : {<<>>, TopicsOne, TopicsTwo},
     duration : {<<>>}, source_materials : {<<>>, SourceText}, slides_content : {<<>>}]

\* the completions the direct tier scores: objects whose claims are objects
ScoredCompletions ==
    {outcome.text : outcome \in {o \in FactCheckOutcomes :
                                    /\ ~o.raised
                                    /\ is_dict(o.text)
                                    /\ ~has_non_dict(o.text.claims)}}

\* the details calculate_correctness_score can return for the request: the
\* agent tier's when the agent is available and there are source materials
\* (the tier handles every error itself); otherwise the direct tier's, the
\* keyword overlap its handler falls back to, or the density fallback when
\* the direct tier raises; otherwise the keyword overlap
ProducedCorrectnessDetails ==
    IF FACT_CHECK_AGENT_AVAILABLE /\ strip(request.source_materials) # <<>>
    THEN UNION {{agent_tier_details(completion) : completion \in agent_completions(outcome)} :
                   outcome \in FactCheckOutcomes}
    ELSE IF OPENAI_AVAILABLE /\ strip(request.source_materials) # <<>>
    THEN UNION {{direct_tier_details(completion) : completion \in ParsedCompletions(text)} :
                   text \in ScoredCompletions}
         \cup {keyword_tier_details(request.source_materials), density_details}
    ELSE {keyword_tier_details(request.source_materials)}

\* the combined content the running orchestrator hands to the topic
\* evaluator
report_content ==
    IF analysis_details.evaluation_method = "fallback_synchronous" THEN fallback_content
    ELSE worker_content

\* the details calculate_topic_coverage_score can return for the request and
\* the combined content given
ProducedTopicDetails(combined_content) ==
    IF extract_topics_from_text(request.topics_covered) = <<>> THEN {no_topics_details}
    ELSE {fallback_tier_topic_details(extract_topics_from_text(request.topics_covered),
                                      combined_content)}
         \cup (IF OPENAI_AVAILABLE
               THEN {ai_tier_topic_details(completion) :
                        completion \in TopicCompletions(
                                           extract_topics_from_text(request.topics_covered))}
               ELSE {})

\* the start of calculate_comprehensive_lecture_score or of
\* run_fallback_evaluation: detailed_analysis holds the evaluation method
ReportInit ==
    /\ request \in ReportRequests
    /\ FACT_CHECK_AGENT_AVAILABLE \in BOOLEAN
    /\ OPENAI_AVAILABLE \in BOOLEAN
    /\ PipelineIdle
    /\ HeuristicIdle
    /\ \E method \in {"comprehensive_ai_analysis", "fallback_synchronous"} :
           analysis_details = [evaluation_method |-> method, correctness |-> <<>>,
                               engagement |-> <<>>, topic_coverage |-> <<>>]
    /\ report = <<>>
    /\ ScoringIdle
    /\ MetricsIdle
    /\ AssemblyIdle

\* calculate_correctness_score returns and calculate_comprehensive_lecture_score
\* stores its details
CorrectnessDetailsReturned ==
    /\ report = <<>>
    /\ analysis_details.evaluation_method = "comprehensive_ai_analysis"
    /\ analysis_details.correctness = <<>>
    /\ \E details \in ProducedCorrectnessDetails :
           analysis_details' = [analysis_details EXCEPT !.correctness = <<details>>]
    /\ UNCHANGED <<pipeline_vars, heuristic_vars, scoring_vars, metrics_vars, assembly_vars, report>>

\* run_fallback_evaluation stores the details of its inline correctness score
FallbackDetailsWritten ==
    /\ report = <<>>
    /\ analysis_details.evaluation_method = "fallback_synchronous"
    /\ analysis_details.correctness = <<>>
    /\ analysis_details' =
           [analysis_details EXCEPT !.correctness =
               <<fallback_run_details(
                     fallback_correctness_ratio(request.transcript_text, request.duration,
                                                request.source_materials))>>]
    /\ UNCHANGED <<pipeline_vars, heuristic_vars, scoring_vars, metrics_vars, assembly_vars, report>>

\* the keys of the details calculate_engagement_score builds itself
primary_engagement_keys ==
    {"method", "base_score", "slides_bonus", "full_analysis", "reconstruction_details",
     "augmented_transcript_used"}

\* the keys of the details of calculate_engagement_score_fallback
fallback_engagement_keys ==
    {"method", "question_indicators", "engagement_indicators", "explicit_questions",
     "pause_indicators", "base_score", "slides_bonus", "full_analysis",
     "reconstruction_details"}

\* an engagement heuristic returns and its details are stored:
\* calculate_engagement_score's own or its fallback's for the comprehensive
\* evaluation, the fallback's for run_fallback_evaluation
EngagementDetailsReturned ==
    /\ report = <<>>
    /\ analysis_details.evaluation_method \in {"comprehensive_ai_analysis", "fallback_synchronous"}
    /\ analysis_details.correctness # <<>>
    /\ analysis_details.engagement = <<>>
    /\ \E keys \in (IF analysis_details.evaluation_method = "comprehensive_ai_analysis"
                     THEN {primary_engagement_keys, fallback_engagement_keys}
                     ELSE {fallback_engagement_keys}) :
           analysis_details' =
               [analysis_details EXCEPT !.engagement = <<heuristic_details(keys)>>]
    /\ UNCHANGED <<pipeline_vars, heuristic_vars, scoring_vars, metrics_vars, assembly_vars, report>>

\* calculate_topic_coverage_score returns for the combined content of the
\* running orchestrator and its details are stored
TopicDetailsReturned ==
    /\ report = <<>>
    /\ analysis_details.evaluation_method \in {"comprehensive_ai_analysis", "fallback_synchronous"}
    /\ analysis_details.engagement # <<>>
    /\ analysis_details.topic_coverage = <<>>
    /\ \E details \in ProducedTopicDetails(report_content) :
           analysis_details' = [analysis_details EXCEPT !.topic_coverage = <<details>>]
    /\ UNCHANGED <<pipeline_vars, heuristic_vars, scoring_vars, metrics_vars, assembly_vars, report>>

\* an evaluator raises in calculate_comprehensive_lecture_score: the handler
\* records the method 'fallback_analysis' and stores no further details
EvaluatorRaised ==
    /\ report = <<>>
    /\ analysis_details.evaluation_method = "comprehensive_ai_analysis"
    /\ analysis_details.topic_coverage = <<>>
    /\ analysis_details' = [analysis_details EXCEPT !.evaluation_method = "fallback_analysis"]
    /\ UNCHANGED <<pipeline_vars, heuristic_vars, scoring_vars, metrics_vars, assembly_vars, report>>

\* the orchestrator has returned its detailed analysis
evaluation_returned ==
    \/ analysis_details.topic_coverage # <<>>
    \/ analysis_details.evaluation_method = "fallback_analysis"

\* the application calls generate_comprehensive_evaluation_report with a
\* total score and the analysis details the orchestrator returned
GenerateReport ==
    /\ report = <<>>
    /\ evaluation_returned
    /\ \E score \in ReportScores :
           report' = <<generate_comprehensive_evaluation_report(score, analysis_details)>>
    /\ UNCHANGED <<pipeline_vars, heuristic_vars, scoring_vars, metrics_vars, assembly_vars, analysis_details>>

ReportNext ==
    \/ CorrectnessDetailsReturned
    \/ FallbackDetailsWritten
    \/ EngagementDetailsReturned
    \/ TopicDetailsReturned
    \/ EvaluatorRaised
    \/ GenerateReport

ReportSpec == ReportInit /\ [][ReportNext]_vars

-----------------------------------------------------------------------------
(* Properties of the pipeline.                                             *)

\* lo <= x <= hi for a rational x and integers lo, hi
InRange(x, lo, hi) == RLeq(R(lo), x) /\ RLeq(x, R(hi))

\* the value is a (total_score, components, analysis_details) triple
IsTriple(triple) ==
    /\ IsRat(triple.total_score)
    /\ DOMAIN triple.components = {"Correctness", "Engagement", "Topic Coverage"}
    /\ \A name \in DOMAIN triple.components : IsRat(triple.components[name])
    /\ triple.evaluation_method
           \in {"comprehensive_ai_analysis", "fallback_analysis", "fallback_synchronous"}

\* C1: whatever the inputs and whatever each LLM call does (a completion, an
\* exception, text that is not JSON, JSON of the wrong shape),
\* run_evaluation_sync never lets an exception reach its caller, and what it
\* returns is a (total_score, components, analysis_details) triple.
RunEvaluationSyncNeverRaises ==
    /\ main_pc # "raised"
    /\ main_pc = "returned" => Len(result) = 1 /\ IsTriple(result[1])

\* C1 happens: the call has returned through run_fallback_evaluation, whose
\* topic evaluation called the LLM and ended in the deterministic analysis,
\* as it does after an exception, a non-JSON text or JSON of the wrong shape
ReturnedAfterFailedTopicCall ==
    /\ main_pc = "returned"
    /\ timed_out
    /\ topic_calls_llm(request.topics_covered, OPENAI_AVAILABLE)
    /\ topic_coverage # <<>>
    /\ topic_coverage[1].method = "fallback"
    /\ result[1].evaluation_method = "fallback_synchronous"

\* C2: once the 60-second timeout has expired with the worker unfinished,
\* the caller's thread goes on to the fallback evaluation at once: its next
\* step does not depend on the worker having finished.
TimeoutAbandonsWorker ==
    main_pc = "executor_exit" => ENABLED ExecutorExit

\* C3: evaluation_method names the tier that produced the final score: with
\* no AI capability configured, a returned triple's evaluation_method names a
\* fallback tier and not the AI tier.
EvaluationMethodNamesTier ==
    (main_pc = "returned" /\ ~FACT_CHECK_AGENT_AVAILABLE /\ ~OPENAI_AVAILABLE)
        => result[1].evaluation_method \in {"fallback_analysis", "fallback_synchronous"}

\* C4: when there are source materials and the agent tier's LLM call fails,
\* the correctness score comes from a later tier: it is neither computed by
\* the agent tier nor tagged with one of the agent tier's methods.
FailedAgentCallMovesToNextTier ==
    (/\ correctness # <<>>
     /\ FACT_CHECK_AGENT_AVAILABLE
     /\ strip(request.source_materials) # <<>>
     /\ correctness[1].llm = "raised")
        => /\ correctness[1].tier # "agent"
           /\ correctness[1].method \notin {"fact_check_agent", "fact_check_agent_fallback"}

\* the method tags each tier of calculate_correctness_score writes
TierMethods(tier) ==
    CASE tier = "agent" -> {"fact_check_agent", "fact_check_agent_fallback"}
      [] tier = "openai_direct" -> {"openai_enhanced"}
      [] tier = "keyword" -> {"fallback", "keyword_overlap_fallback"}
      [] tier = "density" -> {"basic_density_fallback"}
      [] OTHER -> {}

\* C5: the details calculate_correctness_score returns always carry a
\* 'method' entry, and it is a tag of the tier that produced the score.
CorrectnessMethodAlwaysTagged ==
    correctness # <<>>
        => /\ correctness[1].method # ""
           /\ correctness[1].method \in TierMethods(correctness[1].tier)

\* C6: with no AI capability (agent unavailable, no API key) each of the
\* three evaluators returns a result without raising, and the method it
\* records is one of the deterministic, non-AI methods.
FallbackCompleteness ==
    (~FACT_CHECK_AGENT_AVAILABLE /\ ~OPENAI_AVAILABLE)
        => /\ correctness # <<>>
                => /\ ~correctness[1].exc
                   /\ IsRat(correctness[1].score)
                   /\ correctness[1].method
                          \in {"fallback", "keyword_overlap_fallback", "basic_density_fallback"}
           /\ engagement # <<>>
                => /\ ~engagement[1].exc
                   /\ IsRat(engagement[1].score)
                   /\ engagement[1].method
                          \in {"realistic_dummy_metrics", "fallback_with_realistic_metrics"}
           /\ topic_coverage # <<>>
                => /\ ~topic_coverage[1].exc
                   /\ IsRat(topic_coverage[1].score)
                   /\ topic_coverage[1].method \in {"no_topics", "fallback", "original_fallback"}

\* C6 happens: without AI the three evaluators have returned, the correctness
\* evaluator from its keyword tier and the topic evaluator from the
\* deterministic analysis of a topic the content does not mention
AllEvaluatorsReturnedWithoutAI ==
    /\ ~FACT_CHECK_AGENT_AVAILABLE
    /\ ~OPENAI_AVAILABLE
    /\ correctness # <<>>
    /\ correctness[1].tier = "keyword"
    /\ engagement # <<>>
    /\ topic_coverage # <<>>
    /\ topic_coverage[1].method = "fallback"
    /\ topic_coverage[1].score = R(0)

\* C7: the score calculate_topic_coverage_score returns lies in [0, 10], in
\* every tier and whatever numbers the LLM gives as coverage_score and
\* depth_score.
TopicScoreInRange ==
    (topic_coverage # <<>> /\ ~topic_coverage[1].exc)
        => InRange(topic_coverage[1].score, 0, 10)

\* C8: the score calculate_correctness_score returns lies in [0, 40], in
\* every tier and for every list of claims and digressions.
CorrectnessScoreInRange ==
    correctness # <<>> => InRange(correctness[1].score, 0, 40)

\* C8 happens: the direct tier scored a response whose digression penalty
\* exceeds its ratio, so that the floor at 0.0 decided the result
DirectTierScoreFloored ==
    /\ correctness # <<>>
    /\ correctness[1].tier = "openai_direct"
    /\ correctness[1].method = "openai_enhanced"
    /\ correctness[1].ratio = R(0)

\* C9: the score the engagement evaluator returns (calculate_engagement_score
\* and calculate_engagement_score_fallback) lies in [0, 35].
EngagementScoreInRange ==
    engagement # <<>> => InRange(engagement[1].score, 0, 35)

\* C9 happens: calculate_engagement_score_fallback returned the full 35 for
\* a transcript and slides whose cues add up to more
EngagementFallbackScoreCapped ==
    /\ engagement # <<>>
    /\ engagement[1].method = "fallback_with_realistic_metrics"
    /\ engagement[1].score = R(35)
    /\ RLt(R(35), RAdd(engagement[1].base_score, R(count_all(lower(request.slides_content),
                                                       interactive_keywords_fallback) * 2)))

\* C10: in every triple run_evaluation_sync returns, each of the three
\* components lies in [0, 30] and total_score lies in [0, 100].
ComponentsAndTotalInRange ==
    main_pc = "returned"
        => /\ \A name \in {"Correctness", "Engagement", "Topic Coverage"} :
                  InRange(result[1].components[name], 0, 30)
           /\ InRange(result[1].total_score, 0, 100)

\* C11: the Engagement component of a returned triple is the native
\* engagement score rescaled linearly from 35 points onto 30 (native / 35 *
\* 30), so that a native 35 gives 30.
EngagementComponentRescaled ==
    (/\ main_pc = "returned"
     /\ engagement # <<>>
     /\ result[1].evaluation_method # "fallback_analysis")
        => result[1].components["Engagement"] = RMul(engagement[1].score, Rat(30, 35))

\* the string has no character other than commas and whitespace
OnlyCommasAndWhitespace(text) ==
    \A i \in 1..Len(text) : text[i] \in Whitespace \cup {COMMA[1]}

\* C13: when the topics string is empty, whitespace only or only commas and
\* whitespace, calculate_topic_coverage_score makes no LLM call and returns
\* exactly 5.0 with method 'no_topics', whatever the content and whether or
\* not an AI capability is configured.
NoTopicsNeutrality ==
    OnlyCommasAndWhitespace(request.topics_covered)
        => /\ worker_pc # "topic_wait"
           /\ main_pc # "fallback_topic_wait"
           /\ topic_coverage # <<>>
                => /\ ~topic_coverage[1].exc
                   /\ topic_coverage[1].score = R(5)
                   /\ topic_coverage[1].method = "no_topics"

\* C13 happens: with the API key configured and a transcript to analyse, the
\* topic evaluator has returned for a topics string of a comma and a space
NoTopicsReturnedWithAI ==
    /\ OPENAI_AVAILABLE
    /\ request.topics_covered = TopicsCommas
    /\ request.transcript_text # <<>>
    /\ topic_coverage # <<>>
    /\ topic_coverage[1].score = R(5)

\* the response has an empty list of claims, or is a text that is not JSON
\* and holds no JSON object
ZeroClaims(final_output) ==
    \/ final_output.form \in {"object", "prose_object"} /\ final_output.claims = <<>>
    \/ final_output.form = "prose"

\* the outcomes of the agent's LLM call after which its response has zero
\* claims
ZeroClaimOutcomes ==
    {outcome \in FactCheckOutcomes : ZeroClaims(FactCheckAgent_run(outcome))}

\* C14: when the agent's response has zero claims (an empty list of claims,
\* or no JSON object that any pattern recovers), the agent tier returns the
\* ratio 0.7 before the material bonus, whatever digressions the response
\* lists.
EmptyClaimsDefault ==
    [][worker_pc = "agent_wait"
           => \/ /\ correctness' # <<>>
                 /\ correctness'[1].tier = "agent"
                 /\ correctness'[1].ratio = Rat(7, 10)
                 /\ correctness'[1].method = "fact_check_agent"
              \/ \A outcome \in ZeroClaimOutcomes : ~AgentRespondWith(outcome)]_vars

\* C14 happens: the agent answered in prose with no JSON object in it, and
\* the agent tier returned 0.7 for the empty-claims structure put in its place
EmptyClaimsStructureScored ==
    /\ correctness # <<>>
    /\ correctness[1].tier = "agent"
    /\ correctness[1].llm = "prose"
    /\ correctness[1].ratio = Rat(7, 10)

\* C20: in every correctness tier (agent, direct LLM, keyword overlap,
\* density fallback), when the source materials are not blank the ratio is
\* raised by min(source_word_count / 1000, 0.1), capped at 1.0, and the
\* native score is that ratio times 40.
MaterialBonusInEveryTier ==
    (correctness # <<>> /\ strip(request.source_materials) # <<>>)
        => correctness[1].score
               = RMul(RMin(RAdd(correctness[1].ratio,
                                RMin(Rat(Len(split(request.source_materials)), 1000),
                                     Rat(1, 10))),
                           R(1)),
                      R(40))

\* C16: with the engagement cues, the question marks and the pause
\* indicators of the transcript unchanged, one more question cue never lowers
\* the base score of either heuristic, and the base score never exceeds 30.
QuestionCuesNeverLowerBaseScore ==
    [][(/\ cues'.question > cues.question
        /\ cues'.engagement = cues.engagement
        /\ cues'.marks = cues.marks
        /\ cues'.pauses = cues.pauses)
           => /\ RLeq(base_scores[1].primary, base_scores'[1].primary)
              /\ RLeq(base_scores[1].fallback, base_scores'[1].fallback)
              /\ RLeq(base_scores'[1].primary, R(30))
              /\ RLeq(base_scores'[1].fallback, R(30))]_vars

\* C16 happens: question cues were added to a transcript until its cues add
\* up to more than 30, and both heuristics returned the base score 30
BaseScoreCappedAfterQuestionCues ==
    /\ cues.question = MaxCues
    /\ cues.question * 4 + cues.engagement * 3 + cues.marks * 6 > 60
    /\ base_scores # <<>>
    /\ base_scores[1].primary = R(30)
    /\ base_scores[1].fallback = R(30)

\* what calculate_comprehensive_lecture_score returns for the request when
\* no AI capability is configured: the keyword tier, the heuristic and the
\* deterministic topic analysis
evaluation_without_ai ==
    comprehensive_result(
        correctness_result(keyword_tier, request.source_materials, "none"),
        Memo(EngagementScores, <<request.transcript_text, request.slides_content>>,
             calculate_engagement_score(request.transcript_text, request.slides_content)),
        topic_score_without_call(request.topics_covered, worker_content))

\* C15: with AI unavailable the evaluation is reproducible: every run of
\* run_evaluation_sync on the same inputs returns the same total_score and
\* the same components, those a run whose worker ends within the timeout
\* returns for these inputs.
ReproducibleWithoutAI ==
    (main_pc = "returned" /\ ~FACT_CHECK_AGENT_AVAILABLE /\ ~OPENAI_AVAILABLE)
        => /\ result[1].total_score = evaluation_without_ai.total_score
           /\ result[1].components = evaluation_without_ai.components

\* the closing overall-performance remarks of a list of recommendations
closing_remarks(recommendations) ==
    SelectSeq(recommendations,
              LAMBDA r : r.kind \in {"excellent", "good", "needs_improvement"})


\* C17: for every total score the report's recommendations hold exactly one
\* closing overall-performance remark: the excellent remark iff score >= 85,
\* the good remark iff 70 <= score < 85, the needs-improvement remark iff
\* score < 70.
ExactlyOneClosingRemark ==
    report_built
        => /\ Len(closing_remarks(report[1].recommendations)) = 1
           /\ closing_remarks(report[1].recommendations)[1].kind
                  = (IF RLeq(R(85), report[1].overall_score) THEN "excellent"
                     ELSE IF RLeq(R(70), report[1].overall_score) THEN "good"
                     ELSE "needs_improvement")

\* C18: when the topic analysis the AI tier or the deterministic fallback
\* tier of calculate_topic_coverage_score returned reports a topic as not
\* covered, the report's recommendations hold an entry that names uncovered
\* topics.
UncoveredTopicsNamed ==
    (/\ report_built
     /\ report[1].analysis_details.topic_coverage # <<>>
     /\ \E i \in 1..Len(report[1].analysis_details.topic_coverage[1].topic_analysis) :
            report[1].analysis_details.topic_coverage[1].topic_analysis[i].coverage_status
                = "not_covered")
        => \E j \in 1..Len(report[1].recommendations) :
               /\ report[1].recommendations[j].kind = "missing_topics"
               /\ \E i \in 1..Len(report[1].analysis_details.topic_coverage[1].topic_analysis) :
                      /\ report[1].analysis_details.topic_coverage[1].topic_analysis[i]
                             .coverage_status = "not_covered"
                      /\ \E k \in 1..Len(report[1].recommendations[j].about) :
                             report[1].recommendations[j].about[k]
                                 = report[1].analysis_details.topic_coverage[1]
                                       .topic_analysis[i].topic

\* C19: when the correctness analysis the agent tier or the direct tier
\* returned holds a claim judged Incorrect, the report's recommendations
\* hold a "Factual concern" entry that quotes the text of that claim.
IncorrectClaimsFlagged ==
    (/\ report_built
     /\ report[1].analysis_details.correctness # <<>>
     /\ report[1].analysis_details.correctness[1].method
            \in {"fact_check_agent", "openai_enhanced"}
     /\ \E i \in 1..Len(report[1].analysis_details.correctness[1].claims) :
            report[1].analysis_details.correctness[1].claims[i] = "Incorrect")
        => \E j \in 1..Len(report[1].recommendations) :
               /\ report[1].recommendations[j].kind = "factual_concern"
               /\ Len(report[1].recommendations[j].about[1]) >= Len(ClaimStatement)
               /\ SubSeq(report[1].recommendations[j].about[1], 1, Len(ClaimStatement))
                      = ClaimStatement

\* C21: when the source materials are empty or whitespace-only,
\* calculate_correctness_score makes no LLM call and returns the ratio 0.6
\* (24 points) with the details of the 'No source materials for comparison'
\* note (the only details whose method is 'fallback'), whatever the
\* transcript, the duration and the configured AI; when there are source
\* materials and no AI is configured the ratio is the number of lower-cased
\* whitespace tokens the transcript and the materials share over the number
\* of lower-cased whitespace tokens of either.
NeutralWithoutMaterials ==
    correctness # <<>> =>
        /\ strip(request.source_materials) = <<>> =>
               /\ correctness[1].ratio = Rat(6, 10)
               /\ correctness[1].score = R(24)
               /\ correctness[1].method = "fallback"
               /\ correctness[1].llm = "none"
        /\ (strip(request.source_materials) # <<>>
                /\ ~FACT_CHECK_AGENT_AVAILABLE /\ ~OPENAI_AVAILABLE) =>
               /\ correctness[1].llm = "none"
               /\ correctness[1].ratio =
                      Rat(Cardinality(Range(split(lower(request.transcript_text)))
                                          \cap Range(split(lower(request.source_materials)))),
                          Cardinality(Range(split(lower(request.transcript_text)))
                                          \cup Range(split(lower(request.source_materials)))))

\* calculate_correctness_score has returned for whitespace-only materials
\* with both AI capabilities configured
BlankMaterialsScoredWithAI ==
    /\ correctness # <<>>
    /\ request.source_materials = SourceBlank
    /\ request.transcript_text = PhraseContent
    /\ request.duration = <<1>>
    /\ FACT_CHECK_AGENT_AVAILABLE
    /\ OPENAI_AVAILABLE
    /\ correctness[1].score = R(24)

\* the weight the claim gives to a judgment
claim_weight(judgment) ==
    CASE judgment = "Correct" -> R(1)
      [] judgment = "Unsupported" -> Rat(7, 10)
      [] judgment = "Incorrect" -> Rat(2, 10)
      [] OTHER -> R(0)

\* the penalty the claim gives to a severity
severity_penalty(severity) ==
    CASE severity = "High" -> Rat(5, 100)
      [] severity = "Medium" -> Rat(3, 100)
      [] severity = "Low" -> Rat(1, 100)

\* the weights of the claims, one by one
claim_weights(claims) == SubSeq([i \in 1..Len(claims) |-> claim_weight(claims[i])], 1, Len(claims))

\* the penalties of the digressions, one by one
severity_penalties(digressions) ==
    SubSeq([i \in 1..Len(digressions) |-> severity_penalty(digressions[i])],
           1, Len(digressions))

\* C22: in the agent tier, an output with at least one claim gets the ratio
\* (correct * 1.0 + unsupported * 0.7 + incorrect * 0.2) / total_claims less
\* 0.05, 0.03 or 0.01 for each High, Medium or Low digression, and at least
\* 0.1; whatever the claims and digressions are, the ratio returned is at
\* least 0.1 and at most 1.0.
AgentRatioWeighted ==
    (agent_returned # <<>> /\ Len(agent_output.claims) >= 1) =>
        /\ ~agent_returned[1].exc
        /\ InRange(agent_returned[1].ratio, 0, 1)
        /\ RLeq(Rat(1, 10), agent_returned[1].ratio)
        /\ (~has_non_dict(agent_output.claims) /\ ~has_non_dict(agent_output.digressions)) =>
               agent_returned[1].ratio =
                   RMax(Rat(1, 10),
                        RSub(RDivInt(RSum(claim_weights(agent_output.claims)),
                                     Len(agent_output.claims)),
                             RSum(severity_penalties(agent_output.digressions))))

\* the agent tier has scored an output whose weighted ratio less the penalty
\* is below the floor
AgentRatioFloored ==
    /\ agent_returned # <<>>
    /\ agent_output.claims = <<"Incorrect", "Other">>
    /\ agent_output.digressions = <<"High", "Medium", "Low">>
    /\ agent_returned[1].ratio = Rat(1, 10)

\* the base score the claim gives a transcript
claimed_base_score(transcript_text) ==
    RMin(RAdd(R(count_all(lower(transcript_text), question_keywords) * 2
                + count(transcript_text, QUESTION_MARK) * 3
                + count_all(lower(transcript_text), pause_indicators) * 2),
              Rat(count_all(lower(transcript_text), engagement_keywords) * 3, 2)),
         R(30))

\* the slides bonus the claim gives the slides
claimed_slides_bonus(slides_content) ==
    IF slides_content # <<>>
    THEN RMin(R(count_all(lower(slides_content), interactive_keywords_fallback) * 2), R(5))
    ELSE R(0)

\* C23: the engagement score calculate_engagement_score returns to the
\* orchestrator is min(base_score + slides_bonus, 35), where base_score is
\* min(question_count * 2 + engagement_count * 1.5 + explicit_questions * 3
\* + pause_count * 2, 30) and slides_bonus is min(2 * interactive keyword
\* hits, 5) when there are slides and 0 when there are none.
EngagementScoreAsSpecified ==
    (engagement # <<>> /\ engagement[1].method = "realistic_dummy_metrics") =>
        /\ engagement[1].base_score = claimed_base_score(request.transcript_text)
        /\ engagement[1].slides_bonus = claimed_slides_bonus(request.slides_content)
        /\ engagement[1].score =
               RMin(RAdd(claimed_base_score(request.transcript_text),
                         claimed_slides_bonus(request.slides_content)),
                    R(35))

\* C24: calculate_engagement_score_sync is the synchronous version of
\* calculate_engagement_score: whichever of the two gave the engagement score
\* of the run, the other gives the same score for the request's transcript
\* and slides.
SyncEngagementAgrees ==
    engagement # <<>> =>
        /\ engagement[1].score =
               calculate_engagement_score(request.transcript_text,
                                          request.slides_content).score
        /\ engagement[1].score =
               calculate_engagement_score_sync(request.transcript_text,
                                               request.slides_content).score

\* the metric is the same or higher at every later call
never_falls(metric) ==
    \A i \in 1..(Len(metric_calls) - 1) :
        RLeq(metric_calls[i].metrics[metric], metric_calls[i + 1].metrics[metric])

\* the metric is the same or lower at every later call
never_rises(metric) ==
    \A i \in 1..(Len(metric_calls) - 1) :
        RLeq(metric_calls[i + 1].metrics[metric], metric_calls[i].metrics[metric])

\* the names of the metrics
MetricNames ==
    {"student_talk_ratio", "total_student_turns", "average_student_turn_length",
     "back_and_forth_ratio", "turns_per_10min", "conceptual_deep", "clarification_surface",
     "procedural_admin", "elaboration_index", "dialogue_depth", "topical_overlap",
     "content_coverage", "off_topic_ratio", "engagement_diversity",
     "turn_distribution_inequality", "overall_score"}

\* C25: for a fixed transcript every metric of
\* generate_realistic_engagement_metrics moves in one direction only as the
\* score argument rises over [0, 35], the three question counts included,
\* across the score bands at 15 and 25.
MetricsMonotonic ==
    \A metric \in MetricNames : never_falls(metric) \/ never_rises(metric)

\* the entries of the topic analysis stored, when the deterministic fallback
\* made it (its entries carry the two scores)
stored_fallback_entries ==
    IF analysis_details.topic_coverage = <<>> THEN <<>>
    ELSE SelectSeq(analysis_details.topic_coverage[1].topic_analysis,
                   LAMBDA entry : "depth_score" \in DOMAIN entry)

\* the words of the lower-cased topic that occur in the lower-cased content
words_found(topic, combined_content) ==
    {i \in 1..Len(split(lower(topic))) :
        find(lower(combined_content), split(lower(topic))[i], 1) > 0}

\* the topic is matched, in the claim's words
topic_matched(topic, combined_content) ==
    \/ find(lower(combined_content), lower(topic), 1) > 0
    \/ /\ Len(split(lower(topic))) > 1
       /\ 2 * Cardinality(words_found(topic, combined_content)) >= Len(split(lower(topic)))

\* C26: in the deterministic topic fallback a topic is matched iff its
\* lower-cased text is a substring of the lower-cased combined content, or it
\* has more than one word and at least half of its words occur in the
\* content; an unmatched topic is not_covered with coverage and depth 0, and
\* a matched topic is well_covered iff its normalised depth exceeds 0.6 and
\* partially_covered otherwise.
FallbackCoverageStatus ==
    \A i \in 1..Len(stored_fallback_entries) :
        IF topic_matched(stored_fallback_entries[i].topic, report_content)
        THEN /\ stored_fallback_entries[i].coverage_status
                    = (IF RLt(Rat(6, 10), stored_fallback_entries[i].depth_score)
                       THEN "well_covered" ELSE "partially_covered")
             /\ stored_fallback_entries[i].coverage_score # R(0)
        ELSE /\ stored_fallback_entries[i].coverage_status = "not_covered"
             /\ stored_fallback_entries[i].coverage_score = R(0)
             /\ stored_fallback_entries[i].depth_score = R(0)

\* the fallback's analysis is stored with a topic matched by half of its
\* words only and a topic that is not matched
PartialWordMatchStored ==
    /\ Len(stored_fallback_entries) = 2
    /\ find(lower(report_content), lower(stored_fallback_entries[1].topic), 1) = 0
    /\ stored_fallback_entries[1].coverage_status = "partially_covered"
    /\ stored_fallback_entries[2].coverage_status = "not_covered"

\* the topics of the request
request_topics == extract_topics_from_text(request.topics_covered)

\* no topic of the request is matched in the combined content given
no_topic_matched(combined_content) ==
    /\ request_topics # <<>>
    /\ \A i \in 1..Len(request_topics) : ~topic_matched(request_topics[i], combined_content)

\* the deterministic fallback reports every topic of the request not_covered
\* and an overall coverage of 0.0 for the combined content given
all_reported_not_covered(combined_content) ==
    /\ \A i \in 1..Len(request_topics) :
           fallback_topic_entry(request_topics[i], combined_content).coverage_status
               = "not_covered"
    /\ ~analyze_topic_coverage_fallback(request_topics, combined_content).exc
    /\ analyze_topic_coverage_fallback(request_topics, combined_content).coverage_score
           = Number(R(0))

\* C27: with AI unavailable, when no topic of the request is matched in the
\* combined content (neither as a substring nor by half of its words), every
\* topic is reported not_covered, the overall coverage is 0.0 and the score
\* calculate_topic_coverage_score returns is 0.
UnmatchedTopicsScoreZero ==
    (/\ ~OPENAI_AVAILABLE
     /\ topic_coverage # <<>>
     /\ no_topic_matched(worker_content)
     /\ no_topic_matched(fallback_content))
        => /\ ~topic_coverage[1].exc
           /\ topic_coverage[1].score = R(0)
           /\ topic_coverage[1].method = "fallback"
           /\ all_reported_not_covered(worker_content)
           /\ all_reported_not_covered(fallback_content)

\* without AI, calculate_topic_coverage_score has returned for two topics
\* that a transcript with other words does not mention
TwoUnmatchedTopicsScored ==
    /\ ~OPENAI_AVAILABLE
    /\ topic_coverage # <<>>
    /\ request.topics_covered = TopicsTwo
    /\ request.transcript_text = PhraseContent
    /\ request.source_materials = <<>>
    /\ no_topic_matched(worker_content)
    /\ topic_coverage[1].score = R(0)

\* C28: each AI-backed tier is attempted at most once in a call of
\* run_evaluation_sync: once the primary evaluation has failed or timed out,
\* run_fallback_evaluation has no LLM call in flight for any component,
\* topic coverage included.
FallbackMakesNoLLMCall == main_pc # "fallback_topic_wait"


\* C29: no triple run_evaluation_sync returns, on any of its three return
\* paths, has a total_score of 85 or more, so the report made of a returned
\* score never has grade 'A' and never carries the 'excellent' remark.
TotalBelowGradeA ==
    main_pc = "returned"
        => /\ ~RLeq(R(85), result[1].total_score)
           /\ grade(result[1].total_score) # "A"
           /\ \A i \in DOMAIN closing_recommendations(result[1].total_score) :
                  closing_recommendations(result[1].total_score)[i].kind
                      # "excellent"
\* a returned total in the highest band the pipeline reaches
ReturnedWithGradeB ==
    /\ main_pc = "returned"
    /\ grade(result[1].total_score) = "B"
\* the three keys of score_components
ComponentNames == {"Correctness", "Engagement", "Topic Coverage"}

\* C30: in every triple calculate_comprehensive_lecture_score or
\* run_fallback_evaluation returns, the try body's, the except branch's after
\* an evaluator raised, and the fallback's, components has exactly the keys
\* 'Correctness', 'Engagement' and 'Topic Coverage', total_score is the sum
\* of the three values, and the details' 'total_score' and
\* 'score_components' entries equal the returned total and components.
TripleConsistent ==
    assembled # <<>>
        => /\ DOMAIN assembled[1].components = ComponentNames
           /\ assembled[1].total_score
                  = RSum(<<assembled[1].components["Correctness"],
                           assembled[1].components["Engagement"],
                           assembled[1].components["Topic Coverage"]>>)
           /\ {"total_score", "score_components"}
                  \subseteq DOMAIN assembled[1].analysis_details
           /\ assembled[1].analysis_details["total_score"] = assembled[1].total_score
           /\ assembled[1].analysis_details["score_components"] = assembled[1].components

\* C30 happens: the topic evaluator raised after the other two components
\* had been computed, and the except branch returned a triple
ReturnedAfterTopicRaised ==
    /\ assembled # <<>>
    /\ assembled[1].analysis_details["evaluation_method"] = "fallback_analysis"
    /\ {"correctness", "engagement"} \subseteq DOMAIN assembled[1].analysis_details
    /\ assembled[1].components["Topic Coverage"] = R(20)
====
